---- MODULE Spec2Model ----
(***************************************************************************)
(* A model of org.transitopia.utils.FeatureMergeWithIds: mergeLineStrings, *)
(* removeDetailOutsideTile and sortByHilbertIndex, with the planetiler     *)
(* collaborators they call (groupByAttrs, LoopLineMerger, hilbertIndex,    *)
(* combineLineStrings) modelled from their described behaviour.            *)
(*                                                                         *)
(* A coordinate is <<x, y>>, a line is a sequence of coordinates and a     *)
(* geometry is a sequence of lines (one line: a LineString, several: a     *)
(* MultiLineString).                                                       *)
(*                                                                         *)
(* With it, three parts of the TypeScript code: parseIdString of           *)
(* FeatureId.ts, the hover and selection handlers of the CyclingMap        *)
(* component, and deriveCyclingTags of OsmProcessor.ts.                    *)
(***************************************************************************)
EXTENDS Integers, Sequences, FiniteSets, TLC

VARIABLES
  features,               \* the input list of mergeLineStrings
  lengthLimitCalculator,  \* attrs -> length limit, as a function of the class tag
  tolerance,
  buffer,
  resimplify,
  pc,                     \* position in mergeLineStrings
  result,                 \* List<VectorTile.Feature> result
  groupedByAttrs,         \* the groups, in first-seen order
  g,                      \* index of the group the for loop is at
  k,                      \* index of the feature the inner for loop is at
  lengthLimit,            \* lengthLimit of the current group
  mergedIds,              \* List<Long> mergedIds of the current group
  merger,                 \* the lines added to the LoopLineMerger so far
  outputSegments,         \* List<LineString> outputSegments of the current group
  call,                   \* 1: the first call, 2: a second call made by a caller
  firstFeatures,          \* the input of the first call, kept by the caller
  firstResult,            \* the result of the first call, kept by the caller
  input,                  \* removeDetailOutsideTile called on its own: its line
  output,                 \* ... and the list it appends to
  clipped,                \* ... and whether it has returned
  toSort,                 \* sortByHilbertIndex called on its own: its list
  sorted,                 \* ... and, per call made, the list given and returned
  idStr,                  \* parseIdString: its argument, a string of characters
  parsed,                 \* ... and what the call returned or threw
  map,                    \* CyclingMap: what useMap() returns
  zoom,                   \* ... map.getZoom()
  hoveredFeatureIdRef,    \* ... hoveredFeatureIdRef.current
  selectedFeature,        \* ... the selectedFeature state
  featureState,           \* ... the feature-state keys the map holds per feature id
  cursor,                 \* ... map.getCanvas().style.cursor
  rawOsmTags,             \* deriveCyclingTags: its tag record
  derived                 \* ... and, once called, what it returned

vars == <<features, lengthLimitCalculator, tolerance, buffer, resimplify, pc,
          result, groupedByAttrs, g, k, lengthLimit, mergedIds, merger,
          outputSegments, call, firstFeatures, firstResult, input, output,
          clipped, toSort, sorted, idStr, parsed, map, zoom,
          hoveredFeatureIdRef, selectedFeature, featureState, cursor,
          rawOsmTags, derived>>

mergeVars == <<features, lengthLimitCalculator, tolerance, resimplify, pc,
               result, groupedByAttrs, g, k, lengthLimit, mergedIds, merger,
               outputSegments, call, firstFeatures, firstResult>>

clipVars == <<input, output, clipped>>

sortVars == <<toSort, sorted>>

idVars == <<idStr, parsed>>

hoverVars == <<map, zoom, hoveredFeatureIdRef, selectedFeature, featureState,
               cursor>>

tagVars == <<rawOsmTags, derived>>

webVars == <<idVars, hoverVars, tagVars>>

\* Nothing of the merger, the clipper or the sorter is in use.
NoMerge ==
  /\ features = <<>>
  /\ lengthLimitCalculator = <<>>
  /\ tolerance = 0
  /\ buffer = 0
  /\ resimplify = FALSE
  /\ pc = "idle"
  /\ result = <<>>
  /\ groupedByAttrs = <<>>
  /\ g = 0
  /\ k = 0
  /\ lengthLimit = 0
  /\ mergedIds = <<>>
  /\ merger = <<>>
  /\ outputSegments = <<>>
  /\ call = 0
  /\ firstFeatures = <<>>
  /\ firstResult = <<>>
  /\ input = <<>>
  /\ output = <<>>
  /\ clipped = FALSE
  /\ toSort = <<>>
  /\ sorted = <<>>

\* parseIdString is not in use.
NoParse == idStr = <<>> /\ parsed = {}

\* No CyclingMap is mounted.
NoMap ==
  /\ map = FALSE
  /\ zoom = 0
  /\ hoveredFeatureIdRef = {}
  /\ selectedFeature = {}
  /\ featureState = <<>>
  /\ cursor = ""

\* deriveCyclingTags is not in use.
NoTags == rawOsmTags = <<>> /\ derived = {}

-----------------------------------------------------------------------------
(* Bounds *)

\* longest line handed to removeDetailOutsideTile on its own
MaxLineLen == 5

\* most lines in a list handed to sortByHilbertIndex on its own
MaxPieces == 3

\* most features in one input list of the runs on the sides of a triangle
MaxRingFeatures == 3

\* most features in one input list
MaxFeatures == 2

-----------------------------------------------------------------------------
(* Program constants *)

\* the tile's local coordinate square is 0..256 (max = 256 + buffer)
TileSize == 256

-----------------------------------------------------------------------------
(* Small helpers *)

Min2(a, b) == IF a <= b THEN a ELSE b

Max2(a, b) == IF a >= b THEN a ELSE b

Last(s) == s[Len(s)]

Reverse(s) == [i \in 1..Len(s) |-> s[Len(s) + 1 - i]]

-----------------------------------------------------------------------------
(* removeDetailOutsideTile *)

\* env.init(x, nextX, y, nextY); env.intersects(outer), where
\* outer = new Envelope(min, max, min, max), min = -buffer, max = 256 + buffer
EnvIntersectsOuter(p, q, buf) ==
  LET min == -buf
      max == TileSize + buf
      minx == Min2(p[1], q[1])
      maxx == Max2(p[1], q[1])
      miny == Min2(p[2], q[2])
      maxy == Max2(p[2], q[2])
  IN  ~(min > maxx \/ max < minx \/ min > maxy \/ max < miny)

\* One iteration of the for loop, at 1-based index i (the code's i + 1):
\* st = [current, wasIn, output].
ClipIterationNoHysteresis(seq, i, buf, st) ==
  LET nowIn == EnvIntersectsOuter(seq[i], seq[i + 1], buf)
  IN  IF nowIn
      THEN [st EXCEPT !.current = Append(@, seq[i]), !.wasIn = nowIn]
      ELSE [current |-> <<>>,
            wasIn   |-> nowIn,
            output  |-> IF Len(st.current) >= 2
                        THEN Append(st.output, st.current)
                        ELSE st.output]

\* (wasIn, once true, stays true)
ClipIterationStaleWasIn(seq, i, buf, st) ==
  LET nowIn == EnvIntersectsOuter(seq[i], seq[i + 1], buf)
  IN  IF nowIn \/ st.wasIn
      THEN [st EXCEPT !.current = Append(@, seq[i]),
                      !.wasIn = nowIn \/ st.wasIn]
      ELSE IF st.current # <<>>
           THEN [current |-> <<>>,
                 wasIn   |-> nowIn,
                 output  |-> IF Len(st.current) >= 2
                             THEN Append(st.output, st.current)
                             ELSE st.output]
           ELSE [st EXCEPT !.wasIn = nowIn]

\* (a coordinate is added only when its own pair is inside)
ClipIterationNowInOnly(seq, i, buf, st) ==
  LET nowIn == EnvIntersectsOuter(seq[i], seq[i + 1], buf)
  IN  IF nowIn
      THEN [st EXCEPT !.current = Append(@, seq[i]), !.wasIn = nowIn]
      ELSE IF st.current # <<>> /\ ~st.wasIn
           THEN [current |-> <<>>,
                 wasIn   |-> nowIn,
                 output  |-> IF Len(st.current) >= 2
                             THEN Append(st.output, st.current)
                             ELSE st.output]
           ELSE [st EXCEPT !.wasIn = nowIn]

\* (the run is flushed at the first pair outside, whatever it holds)
ClipIterationFlushesEarly(seq, i, buf, st) ==
  LET nowIn == EnvIntersectsOuter(seq[i], seq[i + 1], buf)
  IN  IF nowIn
      THEN [st EXCEPT !.current = Append(@, seq[i]), !.wasIn = nowIn]
      ELSE [current |-> <<>>,
            wasIn   |-> nowIn,
            output  |-> IF st.current # <<>>
                        THEN Append(st.output, st.current)
                        ELSE st.output]

\* (the coordinate added is the next one)
ClipIterationAddsNext(seq, i, buf, st) ==
  LET nowIn == EnvIntersectsOuter(seq[i], seq[i + 1], buf)
  IN  IF nowIn \/ st.wasIn
      THEN [st EXCEPT !.current = Append(@, seq[i + 1]), !.wasIn = nowIn]
      ELSE IF st.current # <<>>
           THEN [current |-> <<>>,
                 wasIn   |-> nowIn,
                 output  |-> IF Len(st.current) >= 2
                             THEN Append(st.output, st.current)
                             ELSE st.output]
           ELSE [st EXCEPT !.wasIn = nowIn]

ClipIteration(seq, i, buf, st) ==
  LET nowIn == EnvIntersectsOuter(seq[i], seq[i + 1], buf)
  IN  IF nowIn \/ st.wasIn
      THEN [st EXCEPT !.current = Append(@, seq[i]), !.wasIn = nowIn]
      ELSE \* out: wait to flush until 2 consecutive outs
           IF st.current # <<>>
           THEN [current |-> <<>>,
                 wasIn   |-> nowIn,
                 output  |-> IF Len(st.current) >= 2
                             THEN Append(st.output, st.current)
                             ELSE st.output]
           ELSE [st EXCEPT !.wasIn = nowIn]

RECURSIVE ClipLoop(_, _, _, _)
ClipLoop(seq, i, buf, st) ==
  IF i > Len(seq) - 1
  THEN st
  ELSE ClipLoop(seq, i + 1, buf, ClipIteration(seq, i, buf, st))

\* (the last coordinate is added only when it lies in the square itself)
RemoveDetailLastByEnvelopeOnly(line, buf, out) ==
  LET st   == ClipLoop(line, 1, buf,
                       [current |-> <<>>, wasIn |-> FALSE, output |-> out])
      last == Last(line)
      cur  == IF EnvIntersectsOuter(last, last, buf)
              THEN Append(st.current, last)
              ELSE st.current
  IN  IF Len(cur) >= 2 THEN Append(st.output, cur) ELSE st.output

\* The list `out` after removeDetailOutsideTile(line, buf, out). After the
\* loop x, y hold the last coordinate, so the envelope of the "last point"
\* test is that single coordinate.
RemoveDetailOutsideTile(line, buf, out) ==
  LET st   == ClipLoop(line, 1, buf,
                       [current |-> <<>>, wasIn |-> FALSE, output |-> out])
      last == Last(line)
      cur  == IF EnvIntersectsOuter(last, last, buf) \/ st.wasIn
              THEN Append(st.current, last)
              ELSE st.current
  IN  IF Len(cur) >= 2 THEN Append(st.output, cur) ELSE st.output

-----------------------------------------------------------------------------
(* LoopLineMerger, as mergeLineStrings configures it: setTolerance,        *)
(* setMergeStrokes(true), setMinLength and setLoopMinLength(lengthLimit),   *)
(* setStubMinLength(0.5). The lines added meet only at their end points,   *)
(* at most two at one point, and have segments of whole-number length, so  *)
(* that noding, stroke merging and stub removal have nothing to do.        *)

Closed(line) == line[1] = Last(line)

EndPoints(line) == {line[1], Last(line)}

RECURSIVE SumOver(_, _)
SumOver(f, n) == IF n = 0 THEN 0 ELSE f[n] + SumOver(f, n - 1)

\* the number of line ends at coordinate p
Degree(p, edges) ==
  SumOver([i \in 1..Len(edges) |->
             (IF edges[i][1] = p THEN 1 ELSE 0)
             + (IF Last(edges[i]) = p THEN 1 ELSE 0)], Len(edges))

\* lines a and b joined at their common end point p, in a's direction
Fuse(a, b, p) ==
  IF Last(a) = p
  THEN IF b[1] = p THEN a \o Tail(b) ELSE a \o Tail(Reverse(b))
  ELSE IF Last(b) = p THEN b \o Tail(a) ELSE Reverse(b) \o Tail(a)

RemoveAt(s, j) == [i \in 1..(Len(s) - 1) |-> IF i < j THEN s[i] ELSE s[i + 1]]

\* the pairs of open lines that meet at a point where exactly two line ends
\* meet
Fusable(edges) ==
  {ij \in (1..Len(edges)) \X (1..Len(edges)) :
     /\ ij[1] < ij[2]
     /\ ~Closed(edges[ij[1]])
     /\ ~Closed(edges[ij[2]])
     /\ \E p \in EndPoints(edges[ij[1]]) \cap EndPoints(edges[ij[2]]) :
          Degree(p, edges) = 2}

RECURSIVE DegreeTwoMerge(_)
DegreeTwoMerge(edges) ==
  LET cand == Fusable(edges)
  IN  IF cand = {}
      THEN edges
      ELSE LET i  == CHOOSE x \in {c[1] : c \in cand} :
                       \A c \in cand : x <= c[1]
               j  == CHOOSE y \in {c[2] : c \in {d \in cand : d[1] = i}} :
                       \A c \in {d \in cand : d[1] = i} : y <= c[2]
               ps == {q \in EndPoints(edges[i]) \cap EndPoints(edges[j]) :
                        Degree(q, edges) = 2}
               p  == IF Last(edges[i]) \in ps THEN Last(edges[i])
                     ELSE edges[i][1]
           IN  DegreeTwoMerge(
                 RemoveAt([edges EXCEPT ![i] = Fuse(edges[i], edges[j], p)], j))

\* twice the area of triangle a, b, c: |cross| = distance(c, line ab) * |ab|
Cross(a, b, c) ==
  LET v == (b[1] - a[1]) * (c[2] - a[2]) - (b[2] - a[2]) * (c[1] - a[1])
  IN  IF v < 0 THEN -v ELSE v

SqDist(a, b) ==
  (b[1] - a[1]) * (b[1] - a[1]) + (b[2] - a[2]) * (b[2] - a[2])

\* Douglas-Peucker: a vertex is dropped when the vertices between the ends
\* of its stretch all lie within tol of the chord
RECURSIVE DouglasPeucker(_, _)
DouglasPeucker(line, tol) ==
  IF Len(line) <= 2
  THEN line
  ELSE LET a   == line[1]
           b   == Last(line)
           mid == 2..(Len(line) - 1)
           \* squared distance from the chord, scaled by |ab|^2 (by 1 when a = b)
           d(i) == IF a = b THEN SqDist(a, line[i])
                   ELSE Cross(a, b, line[i]) * Cross(a, b, line[i])
           scale == IF a = b THEN 1 ELSE SqDist(a, b)
           far == CHOOSE i \in mid :
                    \A j \in mid : d(i) > d(j) \/ (d(i) = d(j) /\ i <= j)
       IN  IF d(far) > tol * tol * scale
           THEN DouglasPeucker(SubSeq(line, 1, far), tol)
                  \o Tail(DouglasPeucker(SubSeq(line, far, Len(line)), tol))
           ELSE <<a, b>>

\* the whole-number square root
RECURSIVE ISqrt(_)
ISqrt(n) ==
  IF n < 2
  THEN n
  ELSE LET small == 2 * ISqrt(n \div 4)
           large == small + 1
       IN  IF large * large > n THEN small ELSE large

LineLength(line) ==
  SumOver([i \in 1..(Len(line) - 1) |-> ISqrt(SqDist(line[i], line[i + 1]))],
          Len(line) - 1)

\* merger.getMergedLineStrings(): fuse, simplify, drop what is shorter than
\* the length limit
GetMergedLineStrings(added, tol, minLength) ==
  LET fused      == DegreeTwoMerge(added)
      simplified == [i \in 1..Len(fused) |-> DouglasPeucker(fused[i], tol)]
  IN  SelectSeq(simplified,
                LAMBDA line : ~(minLength > 0 /\ LineLength(line) < minLength))

-----------------------------------------------------------------------------
(* VectorTile.hilbertIndex and sortByHilbertIndex *)

\* Hilbert.hilbertXYToIndex: the walk down the levels of the curve, s the
\* side of the current quadrant
RECURSIVE HilbertXYToIndex(_, _, _, _)
HilbertXYToIndex(n, s, x, y) ==
  IF s = 0
  THEN 0
  ELSE LET rx == (x \div s) % 2
           ry == (y \div s) % 2
           quadrant == IF rx = 0 THEN ry ELSE 3 - ry      \* (3 * rx) ^ ry
           fx == IF ry = 0 /\ rx = 1 THEN n - 1 - x ELSE x
           fy == IF ry = 0 /\ rx = 1 THEN n - 1 - y ELSE y
           nx == IF ry = 0 THEN fy ELSE fx
           ny == IF ry = 0 THEN fx ELSE fy
       IN  s * s * quadrant + HilbertXYToIndex(n, s \div 2, nx, ny)

ZigZagEncode(n) == IF n >= 0 THEN 2 * n ELSE -2 * n - 1

\* the Hilbert index of the geometry's first coordinate, in 1/16 units
HilbertIndex(line) ==
  HilbertXYToIndex(32768, 16384,
                   ZigZagEncode((line[1][1] * 4096) \div 256),
                   ZigZagEncode((line[1][2] * 4096) \div 256))

\* (x put before the elements of equal index too)
RECURSIVE InsertByHilbertBeforeEqual(_, _)
InsertByHilbertBeforeEqual(s, x) ==
  IF s = <<>>
  THEN <<x>>
  ELSE IF HilbertIndex(x) <= HilbertIndex(s[1])
       THEN <<x>> \o s
       ELSE <<s[1]>> \o InsertByHilbertBeforeEqual(Tail(s), x)

\* s with x put before the first element whose index is greater: the step
\* of a stable sort
RECURSIVE InsertByHilbert(_, _)
InsertByHilbert(s, x) ==
  IF s = <<>>
  THEN <<x>>
  ELSE IF HilbertIndex(x) < HilbertIndex(s[1])      \* BY_HILBERT_INDEX
       THEN <<x>> \o s
       ELSE <<s[1]>> \o InsertByHilbert(Tail(s), x)

RECURSIVE SortPrefix(_, _)
SortPrefix(geometries, n) ==
  IF n = 0
  THEN <<>>
  ELSE InsertByHilbert(SortPrefix(geometries, n - 1), geometries[n])

SortByHilbertIndex(geometries) == SortPrefix(geometries, Len(geometries))

-----------------------------------------------------------------------------
(* Features *)

LineGeometry(lines) == [geomType |-> "LINE", valid |-> TRUE, lines |-> lines]

\* an encoded geometry whose decode() throws GeometryException
CorruptGeometry == [geomType |-> "LINE", valid |-> FALSE, lines |-> <<>>]

PointGeometry(p) == [geomType |-> "POINT", valid |-> TRUE, lines |-> <<<<p>>>>]

\* GeoUtils.combineLineStrings: a LineString for one line, else a
\* MultiLineString of the lines in the order given
CombineLineStrings(segments) == LineGeometry(segments)

CopyWithNewGeometry(feature, newGeometry) ==
  [feature EXCEPT !.geometry = newGeometry]

\* (a key that is there already keeps its value)
SetTagIfAbsent(feature, key, value) ==
  IF key \in DOMAIN feature.tags
  THEN feature
  ELSE [feature EXCEPT !.tags =
          [t \in (DOMAIN feature.tags) \cup {key} |->
             IF t = key THEN value ELSE feature.tags[t]]]

\* (the feature is left with the one tag)
SetTagAlone(feature, key, value) ==
  [feature EXCEPT !.tags = [t \in {key} |-> value]]

SetTag(feature, key, value) ==
  [feature EXCEPT !.tags =
     [t \in (DOMAIN feature.tags) \cup {key} |->
        IF t = key THEN value ELSE feature.tags[t]]]

\* mergedIds.stream().sorted()
RECURSIVE InsertAscending(_, _)
InsertAscending(s, x) ==
  IF s = <<>>
  THEN <<x>>
  ELSE IF x < s[1]
       THEN <<x>> \o s
       ELSE <<s[1]>> \o InsertAscending(Tail(s), x)

RECURSIVE SortedPrefix(_, _)
SortedPrefix(ids, n) ==
  IF n = 0 THEN <<>> ELSE InsertAscending(SortedPrefix(ids, n - 1), ids[n])

Unsorted(ids) == ids

Sorted(ids) == SortedPrefix(ids, Len(ids))

\* String.join(",", ids.map(String::valueOf))
RECURSIVE JoinIds(_)
JoinIds(ids) ==
  IF ids = <<>>
  THEN ""
  ELSE IF Len(ids) = 1
       THEN ToString(ids[1])
       ELSE ToString(ids[1]) \o "," \o JoinIds(Tail(ids))

-----------------------------------------------------------------------------
(* FeatureMerge.groupByAttrs(features, others, GeometryType.LINE) *)

IsLine(feature) == feature.geometry.geomType = "LINE"

\* the tags of the line features, each once, in the order first seen
RECURSIVE KeysInOrder(_, _)
KeysInOrder(fs, n) ==
  IF n = 0
  THEN <<>>
  ELSE LET before == KeysInOrder(fs, n - 1)
       IN  IF IsLine(fs[n]) /\ \A i \in 1..Len(before) : before[i] # fs[n].tags
           THEN Append(before, fs[n].tags)
           ELSE before

GroupByAttrs(fs) ==
  LET keys == KeysInOrder(fs, Len(fs))
  IN  [i \in 1..Len(keys) |->
         SelectSeq(fs, LAMBDA f : IsLine(f) /\ f.tags = keys[i])]

\* what groupByAttrs adds to `others`: the features that are not lines
PassedThrough(fs) == SelectSeq(fs, LAMBDA f : ~IsLine(f))

-----------------------------------------------------------------------------
(* mergeLineStrings(features, lengthLimitCalculator, tolerance, buffer,    *)
(* resimplify, pipeline), a step at a time                                 *)

\* lengthLimitCalculator.apply returns for the feature's tags: a calculator
\* that fails on some tags is a function that is not defined for them
Applies(feature) == feature.tags.class \in DOMAIN lengthLimitCalculator

\* (no length limit, whatever the calculator says)
NoLengthLimit(feature) == 0

\* lengthLimitCalculator.apply(feature1.tags())
LengthLimitOf(feature) == lengthLimitCalculator[feature.tags.class]

\* (the shortcut taken whatever the buffer)
SkipsMergingWhateverBuffer(group, limit) ==
  /\ Len(group) = 1
  /\ limit = 0
  /\ (~resimplify \/ tolerance = 0)

\* the test of the shortcut
SkipsMerging(group, limit) ==
  /\ Len(group) = 1
  /\ buffer = 0
  /\ limit = 0
  /\ (~resimplify \/ tolerance = 0)

\* the merged line strings, each clipped when buffer >= 0 and added as it is
\* otherwise, appended to `segments`
RECURSIVE ClipAllWhateverBuffer(_, _, _)
ClipAllWhateverBuffer(lines, n, segments) ==
  IF n = 0
  THEN segments
  ELSE RemoveDetailOutsideTile(lines[n], buffer,
                               ClipAllWhateverBuffer(lines, n - 1, segments))

RECURSIVE ClipAll(_, _, _)
ClipAll(lines, n, segments) ==
  IF n = 0
  THEN segments
  ELSE LET before == ClipAll(lines, n - 1, segments)
       IN  IF buffer >= 0
           THEN RemoveDetailOutsideTile(lines[n], buffer, before)
           ELSE Append(before, lines[n])

\* (the first feature of the group whose geometry decodes)
FirstDecodable(group) ==
  IF \E i \in 1..Len(group) : group[i].geometry.valid
  THEN group[CHOOSE i \in 1..Len(group) :
               /\ group[i].geometry.valid
               /\ \A j \in 1..(i - 1) : ~group[j].geometry.valid]
  ELSE group[1]

\* groupedFeatures.getFirst()
LastFeature(group) == group[Len(group)]

Feature1(group) == group[1]

\* result.add(feature)
AddFirst(list, feature) == <<feature>> \o list

AddToResult(list, feature) == Append(list, feature)

\* List<Long> mergedIds = new ArrayList<>(), once per group
StaleMergedIds == mergedIds

NewMergedIds == <<>>

\* the feature added for a group whose outputSegments are not empty
MergedFeature(feature1, segments, ids) ==
  SetTag(CopyWithNewGeometry(feature1,
                             CombineLineStrings(SortByHilbertIndex(segments))),
         "osm_way_ids", JoinIds(Sorted(ids)))

\* lines 62-63: result = new ArrayList, groupByAttrs(features, result, LINE)
GroupFeatures ==
  /\ pc = "start"
  /\ result' = PassedThrough(features)
  /\ groupedByAttrs' = GroupByAttrs(features)
  /\ g' = 1
  /\ pc' = "group"
  /\ UNCHANGED <<features, lengthLimitCalculator, tolerance, buffer,
                 resimplify, k, lengthLimit, mergedIds, merger, outputSegments,
                 call, firstFeatures, firstResult, clipVars, sortVars, webVars>>

\* lines 64-74: the next group is a single feature that needs no merging
AddUnmerged ==
  /\ pc = "group"
  /\ g <= Len(groupedByAttrs)
  /\ Applies(Feature1(groupedByAttrs[g]))
  /\ LET group    == groupedByAttrs[g]
         feature1 == Feature1(group)
         limit    == LengthLimitOf(feature1)
     IN  /\ SkipsMerging(group, limit)
         /\ lengthLimit' = limit
         /\ result' = AddToResult(result, feature1)
  /\ g' = g + 1
  /\ UNCHANGED <<features, lengthLimitCalculator, tolerance, buffer,
                 resimplify, pc, groupedByAttrs, k, mergedIds, merger,
                 outputSegments, call, firstFeatures, firstResult, clipVars, sortVars, webVars>>

\* lines 64-83: the next group gets a merger
NewMerger ==
  /\ pc = "group"
  /\ g <= Len(groupedByAttrs)
  /\ Applies(Feature1(groupedByAttrs[g]))
  /\ LET group    == groupedByAttrs[g]
         feature1 == Feature1(group)
         limit    == LengthLimitOf(feature1)
     IN  /\ ~SkipsMerging(group, limit)
         /\ lengthLimit' = limit
  /\ mergedIds' = NewMergedIds
  /\ merger' = <<>>
  /\ outputSegments' = <<>>
  /\ k' = 1
  /\ pc' = "add"
  /\ UNCHANGED <<features, lengthLimitCalculator, tolerance, buffer,
                 resimplify, result, groupedByAttrs, g, call, firstFeatures,
                 firstResult, clipVars, sortVars, webVars>>

\* (the geometry is clipped to the buffered tile before it is added)
AddToMergerClipped ==
  /\ pc = "add"
  /\ k <= Len(groupedByAttrs[g])
  /\ LET feature == groupedByAttrs[g][k]
         lines   == feature.geometry.lines
     IN  /\ feature.geometry.valid
         /\ merger' = merger \o ClipAll(lines, Len(lines), <<>>)
         /\ mergedIds' = Append(mergedIds, feature.id)
  /\ k' = k + 1
  /\ UNCHANGED <<features, lengthLimitCalculator, tolerance, buffer,
                 resimplify, pc, result, groupedByAttrs, g, lengthLimit,
                 outputSegments, call, firstFeatures, firstResult, clipVars,
                 sortVars, webVars>>

\* (the geometry is added and the id is not)
AddToMergerIdNotListed ==
  /\ pc = "add"
  /\ k <= Len(groupedByAttrs[g])
  /\ groupedByAttrs[g][k].geometry.valid
  /\ merger' = merger \o groupedByAttrs[g][k].geometry.lines
  /\ k' = k + 1
  /\ UNCHANGED <<features, lengthLimitCalculator, tolerance, buffer,
                 resimplify, pc, result, groupedByAttrs, g, lengthLimit,
                 mergedIds, outputSegments, call, firstFeatures, firstResult,
                 clipVars, sortVars, webVars>>

\* (the geometry takes the place of what the merger held)
AddToMergerAlone ==
  /\ pc = "add"
  /\ k <= Len(groupedByAttrs[g])
  /\ LET feature == groupedByAttrs[g][k]
     IN  /\ feature.geometry.valid
         /\ merger' = feature.geometry.lines
         /\ mergedIds' = Append(mergedIds, feature.id)
  /\ k' = k + 1
  /\ UNCHANGED <<features, lengthLimitCalculator, tolerance, buffer,
                 resimplify, pc, result, groupedByAttrs, g, lengthLimit,
                 outputSegments, call, firstFeatures, firstResult, clipVars,
                 sortVars, webVars>>

\* (the failure is swallowed and the group left out)
LengthLimitFailureSkipsGroup ==
  /\ pc = "group"
  /\ g <= Len(groupedByAttrs)
  /\ ~Applies(Feature1(groupedByAttrs[g]))
  /\ g' = g + 1
  /\ UNCHANGED <<features, lengthLimitCalculator, tolerance, buffer,
                 resimplify, pc, result, groupedByAttrs, k, lengthLimit,
                 mergedIds, merger, outputSegments, call, firstFeatures,
                 firstResult, clipVars, sortVars, webVars>>

\* lines 64-66: lengthLimitCalculator.apply fails on the tags of the next
\* group, and the exception leaves mergeLineStrings
LengthLimitThrows ==
  /\ pc = "group"
  /\ g <= Len(groupedByAttrs)
  /\ ~Applies(Feature1(groupedByAttrs[g]))
  /\ pc' = "thrown"
  /\ UNCHANGED <<features, lengthLimitCalculator, tolerance, buffer,
                 resimplify, result, groupedByAttrs, g, k, lengthLimit,
                 mergedIds, merger, outputSegments, call, firstFeatures,
                 firstResult, clipVars, sortVars, webVars>>

\* lines 84-87: the feature's geometry decodes
AddToMerger ==
  /\ pc = "add"
  /\ k <= Len(groupedByAttrs[g])
  /\ LET feature == groupedByAttrs[g][k]
     IN  /\ feature.geometry.valid
         /\ merger' = merger \o feature.geometry.lines
         /\ mergedIds' = Append(mergedIds, feature.id)
  /\ k' = k + 1
  /\ UNCHANGED <<features, lengthLimitCalculator, tolerance, buffer,
                 resimplify, pc, result, groupedByAttrs, g, lengthLimit,
                 outputSegments, call, firstFeatures, firstResult, clipVars, sortVars, webVars>>

\* (the id added before the geometry is decoded)
DecodeFailsIdListed ==
  /\ pc = "add"
  /\ k <= Len(groupedByAttrs[g])
  /\ ~groupedByAttrs[g][k].geometry.valid
  /\ mergedIds' = Append(mergedIds, groupedByAttrs[g][k].id)
  /\ k' = k + 1
  /\ UNCHANGED <<features, lengthLimitCalculator, tolerance, buffer,
                 resimplify, pc, result, groupedByAttrs, g, lengthLimit,
                 merger, outputSegments, call, firstFeatures, firstResult,
                 clipVars, sortVars, webVars>>

\* lines 86, 88-90: decode() throws GeometryException, which is logged
DecodeFails ==
  /\ pc = "add"
  /\ k <= Len(groupedByAttrs[g])
  /\ ~groupedByAttrs[g][k].geometry.valid
  /\ k' = k + 1
  /\ UNCHANGED <<features, lengthLimitCalculator, tolerance, buffer,
                 resimplify, pc, result, groupedByAttrs, g, lengthLimit,
                 mergedIds, merger, outputSegments, call, firstFeatures,
                 firstResult, clipVars, sortVars, webVars>>

\* lines 92-99: the merged lines, clipped, become the outputSegments
ClipMerged ==
  /\ pc = "add"
  /\ k > Len(groupedByAttrs[g])
  /\ LET merged == GetMergedLineStrings(merger, tolerance, lengthLimit)
     IN  outputSegments' = ClipAll(merged, Len(merged), <<>>)
  /\ pc' = "assemble"
  /\ UNCHANGED <<features, lengthLimitCalculator, tolerance, buffer,
                 resimplify, result, groupedByAttrs, g, k, lengthLimit,
                 mergedIds, merger, call, firstFeatures, firstResult,
                 clipVars, sortVars, webVars>>

\* lines 101-114: one merged feature for the group
AddMerged ==
  /\ pc = "assemble"
  /\ outputSegments # <<>>
  /\ result' = AddToResult(result,
                           MergedFeature(Feature1(groupedByAttrs[g]),
                                         outputSegments, mergedIds))
  /\ g' = g + 1
  /\ pc' = "group"
  /\ UNCHANGED <<features, lengthLimitCalculator, tolerance, buffer,
                 resimplify, groupedByAttrs, k, lengthLimit, mergedIds, merger,
                 outputSegments, call, firstFeatures, firstResult, clipVars, sortVars, webVars>>

\* line 101: nothing is left of the group
AddNothing ==
  /\ pc = "assemble"
  /\ outputSegments = <<>>
  /\ g' = g + 1
  /\ pc' = "group"
  /\ UNCHANGED <<features, lengthLimitCalculator, tolerance, buffer,
                 resimplify, result, groupedByAttrs, k, lengthLimit, mergedIds,
                 merger, outputSegments, call, firstFeatures, firstResult,
                 clipVars, sortVars, webVars>>

\* line 117: return result
Return ==
  /\ pc = "group"
  /\ g > Len(groupedByAttrs)
  /\ pc' = "done"
  /\ UNCHANGED <<features, lengthLimitCalculator, tolerance, buffer,
                 resimplify, result, groupedByAttrs, g, k, lengthLimit,
                 mergedIds, merger, outputSegments, call, firstFeatures,
                 firstResult, clipVars, sortVars, webVars>>

Next ==
  \/ GroupFeatures
  \/ AddUnmerged
  \/ NewMerger
  \/ AddToMerger
  \/ DecodeFails
  \/ ClipMerged
  \/ AddMerged
  \/ AddNothing
  \/ Return

-----------------------------------------------------------------------------
(* The inputs *)

\* a triangle with sides 64, 48 and 80, well inside the tile
PA == <<32, 32>>

PB == <<96, 32>>

PC == <<96, 80>>

\* a line that leaves the tile on the right for two pairs and comes back
Detour ==
  <<<<200, 100>>, <<300, 100>>, <<330, 140>>, <<300, 180>>, <<200, 180>>>>

\* a line right of the tile, inside it once the tile is buffered by 64
Outside == <<<<300, 20>>, <<300, 60>>>>

InputLines == {<<PA, PB>>, <<PB, PC>>, <<PC, PA>>, Detour, Outside}

InputGeometries ==
  {LineGeometry(<<line>>) : line \in InputLines}
    \cup {CorruptGeometry, PointGeometry(PA)}

Classes == {"track", "lane"}

Buffers == {-1, 0, 64}

Tolerances == {0, 1}

LengthLimits == {0, 120}

\* the ids of an input list, ascending from 9 or descending from 11: they
\* are unique within the batch
IdOf(ascending, i) == IF ascending THEN 8 + i ELSE 12 - i

\* no two features of a batch have the same line: ways do not overlap
DistinctLines(fs) ==
  \A i, j \in 1..Len(fs) :
    (i # j /\ fs[i].geometry.valid /\ fs[j].geometry.valid
       /\ IsLine(fs[i]) /\ IsLine(fs[j]))
      => fs[i].geometry # fs[j].geometry

InputLists ==
  {fs \in UNION {
       {[i \in 1..n |-> [id       |-> IdOf(asc, i),
                         geometry |-> geoms[i],
                         tags     |-> [class |-> classes[i]]]] :
          geoms \in [1..n -> InputGeometries],
          classes \in [1..n -> Classes],
          asc \in BOOLEAN} : n \in 1..MaxFeatures} :
     DistinctLines(fs)}

Init ==
  /\ features \in InputLists
  /\ lengthLimitCalculator \in [Classes -> LengthLimits]
  /\ tolerance \in Tolerances
  /\ buffer \in Buffers
  /\ resimplify \in BOOLEAN
  /\ pc = "start"
  /\ result = <<>>
  /\ groupedByAttrs = <<>>
  /\ g = 0
  /\ k = 0
  /\ lengthLimit = 0
  /\ mergedIds = <<>>
  /\ merger = <<>>
  /\ outputSegments = <<>>
  /\ call = 1
  /\ firstFeatures = <<>>
  /\ firstResult = <<>>
  /\ input = <<>>
  /\ output = <<>>
  /\ clipped = FALSE
  /\ toSort = <<>>
  /\ sorted = <<>>
  /\ NoParse /\ NoMap /\ NoTags

Spec == Init /\ [][Next]_vars

-----------------------------------------------------------------------------
(* mergeLineStrings on up to MaxRingFeatures features that are sides of    *)
(* the triangle PA, PB, PC, without simplification.                        *)

RingGeometries ==
  {LineGeometry(<<line>>) : line \in {<<PA, PB>>, <<PB, PC>>, <<PC, PA>>}}
    \cup {CorruptGeometry}

RingLists ==
  {fs \in UNION {
       {[i \in 1..n |-> [id       |-> IdOf(asc, i),
                         geometry |-> geoms[i],
                         tags     |-> [class |-> classes[i]]]] :
          geoms \in [1..n -> RingGeometries],
          classes \in [1..n -> Classes],
          asc \in BOOLEAN} : n \in 1..MaxRingFeatures} :
     DistinctLines(fs)}

RingInit ==
  /\ features \in RingLists
  /\ lengthLimitCalculator \in [Classes -> LengthLimits]
  /\ tolerance = 0
  /\ buffer \in {-1, 0}
  /\ resimplify = FALSE
  /\ pc = "start"
  /\ result = <<>>
  /\ groupedByAttrs = <<>>
  /\ g = 0
  /\ k = 0
  /\ lengthLimit = 0
  /\ mergedIds = <<>>
  /\ merger = <<>>
  /\ outputSegments = <<>>
  /\ call = 1
  /\ firstFeatures = <<>>
  /\ firstResult = <<>>
  /\ input = <<>>
  /\ output = <<>>
  /\ clipped = FALSE
  /\ toSort = <<>>
  /\ sorted = <<>>
  /\ NoParse /\ NoMap /\ NoTags

SpecRing == RingInit /\ [][Next]_vars

-----------------------------------------------------------------------------
(* mergeLineStrings with a lengthLimitCalculator that may fail on the tags *)
(* of a class, without simplification.                                     *)

Calculators == UNION {[D -> LengthLimits] : D \in SUBSET Classes}

MalformedInit ==
  /\ features \in InputLists
  /\ lengthLimitCalculator \in Calculators
  /\ tolerance = 0
  /\ buffer \in Buffers
  /\ resimplify = FALSE
  /\ pc = "start"
  /\ result = <<>>
  /\ groupedByAttrs = <<>>
  /\ g = 0
  /\ k = 0
  /\ lengthLimit = 0
  /\ mergedIds = <<>>
  /\ merger = <<>>
  /\ outputSegments = <<>>
  /\ call = 1
  /\ firstFeatures = <<>>
  /\ firstResult = <<>>
  /\ input = <<>>
  /\ output = <<>>
  /\ clipped = FALSE
  /\ toSort = <<>>
  /\ sorted = <<>>
  /\ NoParse /\ NoMap /\ NoTags

SpecMalformed == MalformedInit /\ [][Next \/ LengthLimitThrows]_vars

-----------------------------------------------------------------------------
(* A caller that calls mergeLineStrings a second time, with the same       *)
(* parameters: on the same features in another order, or on one merged     *)
(* feature of the first result.                                            *)

Orders(n) ==
  {p \in [1..n -> 1..n] : \A i, j \in 1..n : i # j => p[i] # p[j]}

IsMerged(feature) == "osm_way_ids" \in DOMAIN feature.tags

SecondCall(fs) ==
  /\ pc = "done"
  /\ call = 1
  /\ firstFeatures' = features
  /\ firstResult' = result
  /\ features' = fs
  /\ call' = 2
  /\ pc' = "start"
  /\ result' = <<>>
  /\ groupedByAttrs' = <<>>
  /\ g' = 0
  /\ UNCHANGED <<lengthLimitCalculator, tolerance, buffer, resimplify, k,
                 lengthLimit, mergedIds, merger, outputSegments, clipVars, sortVars, webVars>>

CallPermuted ==
  \E p \in Orders(Len(features)) :
    /\ \E i \in 1..Len(features) : p[i] # i
    /\ SecondCall([i \in 1..Len(features) |-> features[p[i]]])

CallOnMerged ==
  \E i \in 1..Len(result) :
    /\ IsMerged(result[i])
    /\ SecondCall(<<result[i]>>)

\* simplification is left out of the second-call runs: tolerance 0, no
\* resimplify
PlainInit == Init /\ tolerance = 0 /\ ~resimplify

SpecPermute == PlainInit /\ [][Next \/ CallPermuted]_vars

SpecRemerge == Init /\ [][Next \/ CallOnMerged]_vars

-----------------------------------------------------------------------------
(* removeDetailOutsideTile called on its own, on every line over a small   *)
(* grid of coordinates: 100 lies inside the tile, -44 and 300 outside it   *)
(* (and inside once the tile is buffered by 64).                           *)

ClipCoordinates == {<<x, y>> : x \in {-44, 100, 300}, y \in {100, 300}}

ClipBuffers == {0, 64}

LinesOfLength(n) == [1..n -> ClipCoordinates]

ClipInit ==
  /\ input \in UNION {LinesOfLength(n) : n \in 2..MaxLineLen}
  /\ buffer \in ClipBuffers
  /\ output = <<>>
  /\ clipped = FALSE
  /\ features = <<>>
  /\ lengthLimitCalculator = <<>>
  /\ tolerance = 0
  /\ resimplify = FALSE
  /\ pc = "idle"
  /\ result = <<>>
  /\ groupedByAttrs = <<>>
  /\ g = 0
  /\ k = 0
  /\ lengthLimit = 0
  /\ mergedIds = <<>>
  /\ merger = <<>>
  /\ outputSegments = <<>>
  /\ call = 0
  /\ firstFeatures = <<>>
  /\ firstResult = <<>>
  /\ toSort = <<>>
  /\ sorted = <<>>
  /\ NoParse /\ NoMap /\ NoTags

ClipCall ==
  /\ ~clipped
  /\ output' = RemoveDetailOutsideTile(input, buffer, output)
  /\ clipped' = TRUE
  /\ UNCHANGED <<input, buffer, mergeVars, sortVars, webVars>>

ClipNext == ClipCall

SpecClip == ClipInit /\ [][ClipNext]_vars

\* pair i of the input line, (input[i], input[i + 1]), intersects the
\* buffered tile square
PairInside(i) == EnvIntersectsOuter(input[i], input[i + 1], buffer)

\* the pairs of the input line, 1 .. Len(input) - 1
Pairs == 1..(Len(input) - 1)

-----------------------------------------------------------------------------
(* sortByHilbertIndex called on its own, on lists of up to MaxPieces       *)
(* lines, two of which begin at the same coordinate; a caller then calls   *)
(* it again on the same lines in another order.                            *)

SortPieces == {<<PA, PB>>, <<PA, PC>>, <<PB, PC>>, Outside}

PieceLists ==
  UNION {{s \in [1..n -> SortPieces] :
            \A i, j \in 1..n : i # j => s[i] # s[j]} : n \in 1..MaxPieces}

SortInit ==
  /\ toSort \in PieceLists
  /\ sorted = <<>>
  /\ input = <<>>
  /\ output = <<>>
  /\ clipped = FALSE
  /\ features = <<>>
  /\ lengthLimitCalculator = <<>>
  /\ tolerance = 0
  /\ buffer = 0
  /\ resimplify = FALSE
  /\ pc = "idle"
  /\ result = <<>>
  /\ groupedByAttrs = <<>>
  /\ g = 0
  /\ k = 0
  /\ lengthLimit = 0
  /\ mergedIds = <<>>
  /\ merger = <<>>
  /\ outputSegments = <<>>
  /\ call = 0
  /\ firstFeatures = <<>>
  /\ firstResult = <<>>
  /\ NoParse /\ NoMap /\ NoTags

\* the list has not been sorted in the order it is in now
NotSortedYet == \A i \in 1..Len(sorted) : sorted[i].given # toSort

SortCall ==
  /\ Len(sorted) < 2
  /\ NotSortedYet
  /\ sorted' = Append(sorted, [given    |-> toSort,
                               returned |-> SortByHilbertIndex(toSort)])
  /\ UNCHANGED <<toSort, buffer, mergeVars, clipVars, webVars>>

Reorder ==
  /\ Len(sorted) = 1
  /\ ~NotSortedYet
  /\ \E p \in Orders(Len(toSort)) :
       /\ \E i \in 1..Len(toSort) : p[i] # i
       /\ toSort' = [i \in 1..Len(toSort) |-> toSort[p[i]]]
  /\ UNCHANGED <<sorted, buffer, mergeVars, clipVars, webVars>>

SortNext == SortCall \/ Reorder

SpecSort == SortInit /\ [][SortNext]_vars

-----------------------------------------------------------------------------
(* What the claims speak of *)

Range(s) == {s[i] : i \in 1..Len(s)}

\* the tags a merged feature's group shares: its tags less the identifier list
GroupTags(feature) ==
  [t \in (DOMAIN feature.tags) \ {"osm_way_ids"} |-> feature.tags[t]]

\* the input features, in input order, that groupByAttrs puts in the group
\* with these tags
Members(tags) == SelectSeq(features, LAMBDA f : IsLine(f) /\ f.tags = tags)

Coordinates(geometry) ==
  UNION {Range(geometry.lines[i]) : i \in 1..Len(geometry.lines)}

\* the ids of a set, ascending
RECURSIVE Ascending(_)
Ascending(S) ==
  IF S = {}
  THEN <<>>
  ELSE LET least == CHOOSE x \in S : \A y \in S : x <= y
       IN  <<least>> \o Ascending(S \ {least})

\* every way of writing ids of the input, each at most once, in a list
IdLists ==
  UNION {{[i \in 1..Cardinality(S) |-> Ascending(S)[p[i]]] :
            p \in Orders(Cardinality(S))} :
         S \in SUBSET {features[i].id : i \in 1..Len(features)}}

\* the ids that the identifier list of a merged feature names
ListedIds(feature) ==
  Range(CHOOSE ids \in IdLists : JoinIds(ids) = feature.tags.osm_way_ids)

Finished == pc = "done" /\ call = 1

-----------------------------------------------------------------------------
(* C1 *)

\* feature i is a line feature and no other line feature has its tags
Singleton(i) ==
  /\ IsLine(features[i])
  /\ Len(Members(features[i].tags)) = 1

-----------------------------------------------------------------------------
(* C2 *)

\* the input feature has a coordinate that is in the merged geometry
Contributed(feature, merged) ==
  /\ feature.geometry.valid
  /\ Coordinates(feature.geometry) \cap Coordinates(merged.geometry) # {}

\* C2 as claimed: the identifier list of a merged feature names, ascending
\* and once each, the members of its group that have a coordinate surviving
\* merge, length pruning and clipping, and no member that was dropped whole.
C2_ListsSurvivingContributors ==
  Finished =>
    \A m \in Range(result) :
      IsMerged(m) =>
        m.tags.osm_way_ids =
          JoinIds(Ascending({f.id : f \in {x \in Range(Members(GroupTags(m))) :
                                            Contributed(x, m)}}))

\* C2 as amended: the identifier list of a merged feature names, ascending
\* and once each, the members of its group whose geometry decoded, whether
\* or not anything of them survived length pruning and clipping.
C2_ListsDecodedMembers ==
  Finished =>
    \A m \in Range(result) :
      IsMerged(m) =>
        m.tags.osm_way_ids =
          JoinIds(Ascending({f.id : f \in {x \in Range(Members(GroupTags(m))) :
                                            x.geometry.valid}}))

\* a merged feature lists two ids in ascending order, the later one first in
\* the input, and one of the two members left no coordinate in the geometry
C2_Witness ==
  /\ Finished
  /\ \E m \in Range(result) :
       /\ IsMerged(m)
       /\ Cardinality(ListedIds(m)) = 2
       /\ Members(GroupTags(m))[1].id > Members(GroupTags(m))[2].id
       /\ \E f \in Range(Members(GroupTags(m))) :
            f.geometry.valid /\ ~Contributed(f, m)

-----------------------------------------------------------------------------
(* C5 *)

\* the input ids attributed to an output feature: those its identifier list
\* names, or its own id when it was passed through
Attributed(feature) ==
  IF IsMerged(feature) THEN ListedIds(feature) ELSE {feature.id}

\* C5: with unique input ids, no id is attributed to two output features:
\* the identifier lists of the merged features are pairwise disjoint and
\* none names the id of a feature that was passed through.
C5_NoIdInTwoOutputs ==
  Finished =>
    \A i, j \in 1..Len(result) :
      i # j => Attributed(result[i]) \cap Attributed(result[j]) = {}

\* two merged features have come out of one call, each naming an id
C5_Witness ==
  /\ Finished
  /\ \E i, j \in 1..Len(result) :
       /\ i # j
       /\ IsMerged(result[i]) /\ ListedIds(result[i]) # {}
       /\ IsMerged(result[j]) /\ ListedIds(result[j]) # {}

-----------------------------------------------------------------------------
(* C3 *)

Second == pc = "done" /\ call = 2

-----------------------------------------------------------------------------
(* C6 *)

\* the second call is on one merged feature of the first result
Remerged == Second /\ Len(features) = 1 /\ IsMerged(features[1])

-----------------------------------------------------------------------------
(* C7 *)

ValidOnes(fs) == SelectSeq(fs, LAMBDA f : f.geometry.valid)

RECURSIVE LinesOf(_)
LinesOf(fs) ==
  IF fs = <<>> THEN <<>> ELSE fs[1].geometry.lines \o LinesOf(Tail(fs))

\* lines inside the tile whatever the buffer
InsideLines == {<<PA, PB>>, <<PB, PC>>, <<PC, PA>>}

\* C7: a geometry that fails to decode does not abort mergeLineStrings. The
\* merger holds the geometries, and mergedIds the ids, of exactly the
\* members of the group seen so far that decoded; in the end no identifier
\* list names a feature that failed to decode, and every feature that
\* decodes, lies inside the tile and has no length limit is in the result,
\* itself or in a merged feature that lists it and holds its coordinates.
C7_DecodeFailureIsLocal ==
  /\ pc \in {"add", "assemble"} =>
       LET seen == ValidOnes(SubSeq(groupedByAttrs[g], 1, k - 1))
       IN  /\ mergedIds = [i \in 1..Len(seen) |-> seen[i].id]
           /\ merger = LinesOf(seen)
  /\ Finished =>
       \A f \in Range(features) :
         /\ (IsLine(f) /\ ~f.geometry.valid) =>
              \A m \in Range(result) : IsMerged(m) => f.id \notin ListedIds(m)
         /\ (IsLine(f) /\ f.geometry.valid /\ LengthLimitOf(f) = 0
               /\ f.geometry.lines[1] \in InsideLines) =>
              \E r \in Range(result) :
                \/ r = f
                \/ /\ IsMerged(r)
                   /\ GroupTags(r) = f.tags
                   /\ f.id \in ListedIds(r)
                   /\ Coordinates(f.geometry) \subseteq Coordinates(r.geometry)

\* the first feature of a group failed to decode and the second is in the
\* result, in a merged feature that lists it alone
C7_Witness ==
  /\ Finished
  /\ Len(features) = 2
  /\ features[1].tags = features[2].tags
  /\ IsLine(features[1]) /\ ~features[1].geometry.valid
  /\ IsLine(features[2]) /\ features[2].geometry.valid
  /\ Len(result) = 1
  /\ ListedIds(result[1]) = {features[2].id}
  /\ result[1].geometry = features[2].geometry

-----------------------------------------------------------------------------
(* C8 *)

\* the pieces of the group with these tags that survive merging and clipping
SurvivingPieces(tags) ==
  LET merged == GetMergedLineStrings(LinesOf(ValidOnes(Members(tags))),
                                     tolerance,
                                     lengthLimitCalculator[tags.class])
  IN  ClipAll(merged, Len(merged), <<>>)

OutputsOf(tags) ==
  {i \in 1..Len(result) : IsLine(result[i]) /\ GroupTags(result[i]) = tags}

\* the group with these tags goes through the merger
GoesThroughMerger(tags) ==
  ~SkipsMerging(Members(tags), lengthLimitCalculator[tags.class])

\* C8: a group adds exactly one feature to the result when a piece of it
\* survives merging and clipping, with all the surviving pieces in its
\* geometry, and none when no piece survives, as when all of its lines lie
\* outside the buffered tile square. (Stated of the groups whose geometries
\* all decode.)
C8_OneFeaturePerSurvivingGroup ==
  Finished =>
    \A f \in Range(features) :
      (IsLine(f) /\ \A x \in Range(Members(f.tags)) : x.geometry.valid) =>
        IF SurvivingPieces(f.tags) = <<>>
        THEN OutputsOf(f.tags) = {}
        ELSE /\ Cardinality(OutputsOf(f.tags)) = 1
             /\ \A i \in OutputsOf(f.tags) :
                  Range(result[i].geometry.lines)
                    = Range(SurvivingPieces(f.tags))

-----------------------------------------------------------------------------
(* C9 *)

\* C9: with a negative buffer nothing is clipped: the outputSegments of a
\* group are the lines the merger returned, each as it is and in the
\* merger's order.
C9_NegativeBufferKeepsLines ==
  (pc = "assemble" /\ buffer < 0) =>
    outputSegments = GetMergedLineStrings(merger, tolerance, lengthLimit)

\* with a negative buffer, a line outside the tile and a line that leaves it
\* are both in the outputSegments, whole
C9_Witness ==
  /\ pc = "assemble"
  /\ buffer < 0
  /\ Range(outputSegments) = {Outside, Detour}

-----------------------------------------------------------------------------
(* C10 *)

\* the place in the input of the first line feature with these tags
FirstSeen(tags) ==
  CHOOSE i \in 1..Len(features) :
    /\ IsLine(features[i]) /\ features[i].tags = tags
    /\ \A j \in 1..(i - 1) : ~(IsLine(features[j]) /\ features[j].tags = tags)

\* C10: the features that the groups add to the result are in the order in
\* which the groups were first seen in the input.
C10_GroupDiscoveryOrder ==
  Finished =>
    \A i, j \in 1..Len(result) :
      (i < j /\ IsLine(result[i]) /\ IsLine(result[j]))
        => FirstSeen(GroupTags(result[i])) < FirstSeen(GroupTags(result[j]))

\* two groups have each added a feature to the result
C10_Witness ==
  /\ Finished
  /\ Len(result) = 2
  /\ IsLine(result[1]) /\ IsLine(result[2])
  /\ GroupTags(result[1]) # GroupTags(result[2])

-----------------------------------------------------------------------------
(* C4 *)

\* no two consecutive pairs are outside, and the first and the last pair are
\* inside: every outside pair lies alone between two inside pairs
OnlySingleOutsidePairs ==
  /\ PairInside(1)
  /\ PairInside(Len(input) - 1)
  /\ \A i \in Pairs : (i + 1) \in Pairs => PairInside(i) \/ PairInside(i + 1)

\* pairs j and j + 1 are outside, and every other pair is inside
TwoOutsidePairsAt(j) ==
  /\ j > 1
  /\ j + 1 < Len(input) - 1
  /\ \A i \in Pairs : PairInside(i) <=> i \notin {j, j + 1}

\* C4: boundary hysteresis of removeDetailOutsideTile. A line whose outside
\* pairs each lie alone between inside pairs is emitted as one piece, the
\* whole line; a line with two consecutive outside pairs between inside pairs
\* is emitted as two pieces, the coordinates up to the first outside pair's
\* first coordinate and those from the second outside pair's second
\* coordinate on.
C4_BoundaryHysteresis ==
  clipped =>
    /\ OnlySingleOutsidePairs => output = <<input>>
    /\ \A j \in Pairs :
         TwoOutsidePairsAt(j) =>
           output = <<SubSeq(input, 1, j), SubSeq(input, j + 2, Len(input))>>

\* a line that leaves the buffered tile for one pair and comes back has been
\* clipped, and came out as one piece
C4_Witness ==
  /\ clipped
  /\ Len(input) = 4
  /\ PairInside(1) /\ ~PairInside(2) /\ PairInside(3)
  /\ output = <<input>>

-----------------------------------------------------------------------------
(* C11 *)

\* the strings that join one or more ids of the input with commas
IdStrings == {JoinIds(ids) : ids \in IdLists \ {<<>>}}

\* C11: the tags of a merged feature are the tags its group shares and one
\* more key, osm_way_ids, whose value is a string of comma-joined ids; no
\* other key is added, removed or changed.
C11_MergedTagsAreGroupTagsPlusIds ==
  Finished =>
    \A m \in Range(result) :
      IsMerged(m) =>
        \E f \in Range(features) :
          /\ IsLine(f)
          /\ f.id = m.id
          /\ "osm_way_ids" \notin DOMAIN f.tags
          /\ \A x \in Range(Members(f.tags)) : x.tags = f.tags
          /\ DOMAIN m.tags = (DOMAIN f.tags) \cup {"osm_way_ids"}
          /\ \A t \in DOMAIN f.tags : m.tags[t] = f.tags[t]
          /\ m.tags.osm_way_ids \in IdStrings

\* two features of class lane have been merged into one, which has the class
\* and an identifier list of two ids
C11_Witness ==
  /\ Finished
  /\ \E m \in Range(result) :
       /\ IsMerged(m)
       /\ DOMAIN m.tags = {"class", "osm_way_ids"}
       /\ m.tags.class = "lane"
       /\ Cardinality(ListedIds(m)) = 2

-----------------------------------------------------------------------------
(* C12 *)

\* the lines among `lines` that can be reached from those in S by going from
\* a line to one it shares an end point with
RECURSIVE Reached(_, _)
Reached(S, lines) ==
  LET more == {l \in Range(lines) :
                 \E r \in S : EndPoints(l) \cap EndPoints(r) # {}}
  IN  IF more \subseteq S THEN S ELSE Reached(S \cup more, lines)

\* two or more features, all decodable, whose lines hang together end to
\* end, no more than two line ends at one point
ConnectEndToEnd(group) ==
  /\ Len(group) >= 2
  /\ \A i \in 1..Len(group) : group[i].geometry.valid
  /\ LET lines == LinesOf(group)
     IN  /\ Reached({lines[1]}, lines) = Range(lines)
         /\ \A i \in 1..Len(lines) :
              \A p \in EndPoints(lines[i]) : Degree(p, lines) <= 2

\* the line is a stretch of `whole`, in either direction
OccursIn(line, whole) ==
  \E s \in 1..(Len(whole) - Len(line) + 1) :
    SubSeq(whole, s, s + Len(line) - 1) \in {line, Reverse(line)}

\* the line is the lines of the group fused at their shared end points
FusedFrom(whole, group) ==
  LET lines == LinesOf(group)
  IN  /\ \A i \in 1..Len(lines) : OccursIn(lines[i], whole)
      /\ Len(whole)
           = 1 + SumOver([i \in 1..Len(lines) |-> Len(lines[i]) - 1],
                         Len(lines))

\* C12: a group of two or more decodable line features with the same tags
\* that connect end to end, merged with buffer < 0 and length limit 0, adds
\* exactly one feature to the result: its geometry is one line, the input
\* lines fused at their shared end points, its other tags are the group's,
\* and its identifier list is the ids of all the members, ascending and
\* comma-joined.
C12_ConnectedLinesFuseIntoOne ==
  (Finished /\ buffer < 0) =>
    \A f \in Range(features) :
      (IsLine(f) /\ ConnectEndToEnd(Members(f.tags))
         /\ lengthLimitCalculator[f.tags.class] = 0) =>
        /\ Cardinality(OutputsOf(f.tags)) = 1
        /\ \A i \in OutputsOf(f.tags) :
             /\ Len(result[i].geometry.lines) = 1
             /\ FusedFrom(result[i].geometry.lines[1], Members(f.tags))
             /\ DOMAIN result[i].tags = (DOMAIN f.tags) \cup {"osm_way_ids"}
             /\ result[i].tags.osm_way_ids
                  = JoinIds(Ascending({x.id : x \in Range(Members(f.tags))}))

\* two lines that share an end point, the one with the greater id first,
\* have come out as one line of three coordinates that lists "10,11"
C12_Witness ==
  /\ Finished
  /\ buffer < 0
  /\ Len(features) = 2
  /\ features[1].id = 11 /\ features[2].id = 10
  /\ ConnectEndToEnd(features)
  /\ Len(result) = 1
  /\ Len(result[1].geometry.lines) = 1
  /\ Len(result[1].geometry.lines[1]) = 3
  /\ result[1].tags.osm_way_ids = "10,11"

-----------------------------------------------------------------------------
(* C13 *)

\* the lines of the group form a closed ring: they hang together and at
\* each line end exactly two line ends meet
FormRing(group) ==
  /\ ConnectEndToEnd(group)
  /\ LET lines == LinesOf(group)
     IN  \A i \in 1..Len(lines) :
           \A p \in EndPoints(lines[i]) : Degree(p, lines) = 2

\* the length of the lines of the group, added up
TotalLength(group) ==
  LET lines == LinesOf(group)
  IN  SumOver([i \in 1..Len(lines) |-> LineLength(lines[i])], Len(lines))

\* C13: a group of line features with the same tags whose lines form a
\* closed ring adds one feature to the result: its geometry is the one
\* closed loop through all of them and its identifier list names all the
\* members of the ring in ascending order. (Stated of the rings that lie
\* inside the tile and are not shorter than the length limit.)
C13_RingMergesIntoClosedLoop ==
  Finished =>
    \A f \in Range(features) :
      (IsLine(f) /\ FormRing(Members(f.tags))
         /\ lengthLimitCalculator[f.tags.class]
              <= TotalLength(Members(f.tags))) =>
        /\ Cardinality(OutputsOf(f.tags)) = 1
        /\ \A i \in OutputsOf(f.tags) :
             /\ Len(result[i].geometry.lines) = 1
             /\ Closed(result[i].geometry.lines[1])
             /\ FusedFrom(result[i].geometry.lines[1], Members(f.tags))
             /\ result[i].tags.osm_way_ids
                  = JoinIds(Ascending({x.id : x \in Range(Members(f.tags))}))

\* the three sides of the triangle, ids 11, 10, 9 in that order, have come
\* out as one closed line of four coordinates that lists "9,10,11"
C13_Witness ==
  /\ Finished
  /\ Len(features) = 3
  /\ features[1].id = 11
  /\ FormRing(features)
  /\ Len(result) = 1
  /\ Len(result[1].geometry.lines) = 1
  /\ Len(result[1].geometry.lines[1]) = 4
  /\ Closed(result[1].geometry.lines[1])
  /\ result[1].tags.osm_way_ids = "9,10,11"

-----------------------------------------------------------------------------
(* C14 *)

\* the lines the merger makes of the group with these tags before it drops
\* any for its length
MergedUnpruned(tags) ==
  GetMergedLineStrings(LinesOf(ValidOnes(Members(tags))), tolerance, 0)

\* C14: when the length limit computed for the attributes of a group is
\* greater than the length of every merged line of the group, all of its
\* lines are dropped and the group adds no feature to the result.
C14_ShortLinesGiveNoFeature ==
  Finished =>
    \A f \in Range(features) :
      (/\ IsLine(f)
       /\ lengthLimitCalculator[f.tags.class] > 0
       /\ \A i \in 1..Len(MergedUnpruned(f.tags)) :
            LineLength(MergedUnpruned(f.tags)[i])
              < lengthLimitCalculator[f.tags.class])
        => OutputsOf(f.tags) = {}

\* a single line of length 64, inside the tile, with a length limit of 120
\* for its class and nothing clipped: the result is empty
C14_Witness ==
  /\ Finished
  /\ buffer < 0
  /\ Len(features) = 1
  /\ features[1].geometry = LineGeometry(<<<<PA, PB>>>>)
  /\ LineLength(<<PA, PB>>) = 64
  /\ lengthLimitCalculator[features[1].tags.class] = 120
  /\ result = <<>>

-----------------------------------------------------------------------------
(* C15 *)

\* what lines 76-114 add to the result for a group of this one feature:
\* no feature, or one
FullPath(feature) ==
  LET decodes == feature.geometry.valid
      merged  == GetMergedLineStrings(
                   IF decodes THEN feature.geometry.lines ELSE <<>>,
                   tolerance, lengthLimitCalculator[feature.tags.class])
      segments == ClipAll(merged, Len(merged), <<>>)
  IN  IF segments = <<>>
      THEN <<>>
      ELSE <<MergedFeature(feature, segments,
                           IF decodes THEN <<feature.id>> ELSE <<>>)>>

\* the shortcut is taken for the group of feature i alone
ShortcutTaken(i) ==
  /\ Singleton(i)
  /\ buffer = 0
  /\ lengthLimitCalculator[features[i].tags.class] = 0
  /\ (~resimplify \/ tolerance = 0)

-----------------------------------------------------------------------------
(* C16 *)

Thrown == pc = "thrown"

\* C16 as claimed: when the length-limit function fails on the attributes
\* of some group, the failure reaches the caller before any group has been
\* merged, clipped or assembled. (Stated of the inputs whose geometries all
\* decode.)
C16_FailsBeforeAnyGroup ==
  (Thrown /\ \A f \in Range(features) : f.geometry.valid) =>
    /\ g = 1
    /\ result = PassedThrough(features)
    /\ merger = <<>>
    /\ outputSegments = <<>>

\* C16 as amended: when the length-limit function fails on the attributes
\* of some group, the failure reaches the caller when the loop comes to the
\* first such group in discovery order: the groups before it have been
\* processed and only their features are in the result list, that group and
\* those after it have not been, and the call never returns a result.
C16_FailsAtFirstMalformedGroup ==
  /\ Thrown =>
       /\ g \in 1..Len(groupedByAttrs)
       /\ ~Applies(Feature1(groupedByAttrs[g]))
       /\ \A h \in 1..(g - 1) : Applies(Feature1(groupedByAttrs[h]))
       /\ \A r \in Range(result) :
            IsLine(r) =>
              \E h \in 1..(g - 1) :
                GroupTags(r) = Feature1(groupedByAttrs[h]).tags
  /\ pc = "done" =>
       \A h \in 1..Len(groupedByAttrs) : Applies(Feature1(groupedByAttrs[h]))

\* the function has failed on the second group, after the first group was
\* merged and its feature added to the result
C16_Witness ==
  /\ Thrown
  /\ g = 2
  /\ Len(result) = 1
  /\ IsMerged(result[1])
  /\ merger # <<>>

-----------------------------------------------------------------------------
(* C17 *)

\* the lines of the list are in ascending order of Hilbert index
AscendingByHilbert(lines) ==
  \A i, j \in 1..Len(lines) :
    i < j => HilbertIndex(lines[i]) <= HilbertIndex(lines[j])

\* where the line is in the list
PlaceIn(lines, line) == CHOOSE i \in 1..Len(lines) : lines[i] = line

\* C17 as claimed: sortByHilbertIndex returns the pieces in ascending order
\* of Hilbert index, with pieces of equal index ordered by a key that does
\* not depend on the order given, so that two calls on the same pieces in
\* different orders return the same sequence.
C17_SortIgnoresGivenOrder ==
  /\ \A c \in 1..Len(sorted) : AscendingByHilbert(sorted[c].returned)
  /\ Len(sorted) = 2 => sorted[1].returned = sorted[2].returned

\* C17 as amended: sortByHilbertIndex returns the pieces it was given in
\* ascending order of Hilbert index, with pieces of equal index in the order
\* they were given in; two calls on the same pieces in different orders
\* return the same sequence when no two pieces have the same index.
C17_SortKeepsGivenOrderOfTies ==
  /\ \A c \in 1..Len(sorted) :
       LET given    == sorted[c].given
           returned == sorted[c].returned
       IN  /\ Len(returned) = Len(given)
           /\ Range(returned) = Range(given)
           /\ AscendingByHilbert(returned)
           /\ \A i, j \in 1..Len(returned) :
                (i < j /\ HilbertIndex(returned[i]) = HilbertIndex(returned[j]))
                  => PlaceIn(given, returned[i]) < PlaceIn(given, returned[j])
  /\ (Len(sorted) = 2
        /\ \A a, b \in Range(toSort) :
             a # b => HilbertIndex(a) # HilbertIndex(b))
       => sorted[1].returned = sorted[2].returned

\* two calls on the same three pieces, two of them of equal index, have
\* returned different sequences
C17_Witness ==
  /\ Len(sorted) = 2
  /\ Len(toSort) = 3
  /\ Range(sorted[1].given) = Range(sorted[2].given)
  /\ \E a, b \in Range(toSort) : a # b /\ HilbertIndex(a) = HilbertIndex(b)
  /\ \E a, b \in Range(toSort) : HilbertIndex(a) # HilbertIndex(b)
  /\ sorted[1].returned # sorted[2].returned

-----------------------------------------------------------------------------
(* C18 *)

\* C18: within a group clipping comes after merging. While the features of
\* the group are being added nothing has been clipped, and the merger holds
\* the whole geometries of the decodable features seen so far; once the
\* merged lines have been requested the merger holds the whole geometry of
\* every decodable feature of the group, which the buffer has no part in,
\* and the outputSegments are what clipping makes of the merger's lines.
C18_ClipAfterMerge ==
  /\ pc = "add" =>
       /\ outputSegments = <<>>
       /\ merger = LinesOf(ValidOnes(SubSeq(groupedByAttrs[g], 1, k - 1)))
  /\ pc = "assemble" =>
       /\ groupedByAttrs[g] = Members(groupedByAttrs[g][1].tags)
       /\ merger = LinesOf(ValidOnes(groupedByAttrs[g]))
       /\ LET merged == GetMergedLineStrings(merger, tolerance, lengthLimit)
          IN  outputSegments = ClipAll(merged, Len(merged), <<>>)

\* the line that leaves the tile is in the merger whole and in the
\* outputSegments in two pieces
C18_Witness ==
  /\ pc = "assemble"
  /\ buffer = 0
  /\ merger = <<Detour>>
  /\ Len(outputSegments) = 2

-----------------------------------------------------------------------------
(* C19 *)

\* the output lines are stretches of the line, the j-th beginning at its
\* coordinate at[j], that follow one another without sharing a coordinate
StretchesAt(at, lines, line) ==
  /\ \A j \in 1..Len(lines) :
       /\ at[j] + Len(lines[j]) - 1 <= Len(line)
       /\ lines[j] = SubSeq(line, at[j], at[j] + Len(lines[j]) - 1)
  /\ \A j \in 1..(Len(lines) - 1) : at[j] + Len(lines[j]) <= at[j + 1]

\* C19: removeDetailOutsideTile makes up no coordinate. Every line it
\* outputs is a stretch of consecutive coordinates of its input line, in the
\* input's order, and no coordinate of the input, by its place in the line,
\* is in two output lines.
C19_ClipperFabricatesNothing ==
  clipped =>
    \E at \in [1..Len(output) -> 1..Len(input)] :
      StretchesAt(at, output, input)

\* a line of five different coordinates has come out as its first two and
\* its last two
C19_Witness ==
  /\ clipped
  /\ Len(input) = 5
  /\ Cardinality(Range(input)) = 5
  /\ output = <<SubSeq(input, 1, 2), SubSeq(input, 4, 5)>>

-----------------------------------------------------------------------------
(* C23 *)

\* the ways of placing the output lines on the input line, each as a stretch
\* of it
Placements ==
  {at \in [1..Len(output) -> 1..Len(input)] : StretchesAt(at, output, input)}

\* coordinate i of the input line is in an output line so placed
Retained(at, i) ==
  \E j \in 1..Len(output) : at[j] <= i /\ i <= at[j] + Len(output[j]) - 1

\* C23: a coordinate of the input line that is not its last is retained
\* exactly when its pair, (i, i + 1), intersects the buffered tile square or
\* the pair before it, (i - 1, i), did; a coordinate with both adjacent
\* pairs outside is not retained.
C23_RetainedWhenAdjacentPairInside ==
  clipped =>
    \E at \in Placements :
      \A i \in Pairs :
        Retained(at, i) <=> (PairInside(i) \/ (i > 1 /\ PairInside(i - 1)))

\* of four different coordinates the second was retained for the pair
\* before it alone, and the third, with both pairs outside, was not
C23_Witness ==
  /\ clipped
  /\ Len(input) = 4
  /\ Cardinality(Range(input)) = 4
  /\ PairInside(1) /\ ~PairInside(2) /\ ~PairInside(3)
  /\ output = <<SubSeq(input, 1, 2)>>

-----------------------------------------------------------------------------
(* C24 *)

\* C24 as claimed: the last coordinate of the input line is appended to the
\* current run exactly when the final pair intersects the buffered tile
\* square or the pair before it was inside. (Stated of the lines that pass
\* no coordinate twice.)
C24_LastDecidedLikeTheOthers ==
  (clipped /\ Cardinality(Range(input)) = Len(input)) =>
    \E at \in Placements :
      Retained(at, Len(input))
        <=> (PairInside(Len(input) - 1)
               \/ (Len(input) > 2 /\ PairInside(Len(input) - 2)))

\* C24 as amended: the last coordinate of the input line is appended to the
\* current run exactly when the final pair intersects the buffered tile
\* square; that the pair before the final one was inside does not retain
\* it.
C24_LastDecidedByFinalPair ==
  clipped =>
    \E at \in Placements :
      Retained(at, Len(input)) <=> PairInside(Len(input) - 1)

\* of three different coordinates the last was dropped, its pair being
\* outside, although the pair before was inside
C24_Witness ==
  /\ clipped
  /\ Len(input) = 3
  /\ Cardinality(Range(input)) = 3
  /\ PairInside(1) /\ ~PairInside(2)
  /\ output = <<SubSeq(input, 1, 2)>>

-----------------------------------------------------------------------------
(* C25 *)

\* C25: every line that removeDetailOutsideTile appends to its output has at
\* least two coordinates.
C25_OutputLinesHaveTwoCoordinates ==
  clipped => \A j \in 1..Len(output) : Len(output[j]) >= 2

\* a line has come out in two pieces, the first of two coordinates
C25_Witness ==
  /\ clipped
  /\ Len(output) = 2
  /\ Len(output[1]) = 2

-----------------------------------------------------------------------------
(* C27 *)

\* C27: removeDetailOutsideTile loses no detail inside the tile: the two
\* coordinates of every pair that intersects the buffered tile square are in
\* one output line, next to each other and in order.
C27_InsidePairsAreKept ==
  clipped =>
    \E at \in Placements :
      \A i \in Pairs :
        PairInside(i) =>
          \E j \in 1..Len(output) :
            at[j] <= i /\ i + 1 <= at[j] + Len(output[j]) - 1

\* the final pair spans the tile with both its coordinates outside the
\* square, and is in the output
C27_Witness ==
  /\ clipped
  /\ buffer = 0
  /\ Len(input) = 2
  /\ ~EnvIntersectsOuter(input[1], input[1], buffer)
  /\ ~EnvIntersectsOuter(input[2], input[2], buffer)
  /\ PairInside(1)
  /\ output = <<input>>

-----------------------------------------------------------------------------
(* C26 *)

\* C26: the merger is bypassed for a group, whose feature is then in the
\* result as it was given, exactly when the group has one feature, the
\* feature does not need to be clipped (buffer < 0: a buffer of 0 or more
\* clips), the length limit of the group is 0, and it does not need to be
\* simplified (resimplify is false or tolerance is 0); every other group
\* goes through merging, clipping, sorting and assembly. (Stated of the
\* features whose geometry decodes.)
C26_BypassedExactlyWhenNothingToDo ==
  Finished =>
    \A i \in 1..Len(features) :
      (IsLine(features[i]) /\ features[i].geometry.valid) =>
        (features[i] \in Range(result)
           <=> /\ Len(Members(features[i].tags)) = 1
               /\ buffer < 0
               /\ lengthLimitCalculator[features[i].tags.class] = 0
               /\ (~resimplify \/ tolerance = 0))

-----------------------------------------------------------------------------
(* C28 *)

\* C28: a merged feature has the id of the first feature of its group in
\* input order, also when the geometry of that first feature failed to
\* decode and its id is therefore not in the identifier list.
C28_MergedFeatureHasFirstMembersId ==
  Finished =>
    \A m \in Range(result) :
      IsMerged(m) =>
        /\ m.id = Members(GroupTags(m))[1].id
        /\ ~Members(GroupTags(m))[1].geometry.valid => m.id \notin ListedIds(m)

\* the first feature of a group of two failed to decode: the merged feature
\* has its id and lists the other's
C28_Witness ==
  /\ Finished
  /\ Len(features) = 2
  /\ IsLine(features[1]) /\ ~features[1].geometry.valid
  /\ Len(result) = 1
  /\ IsMerged(result[1])
  /\ result[1].id = features[1].id
  /\ ListedIds(result[1]) = {features[2].id}

\* ---------------------------------------------------------------------------
\* FeatureId.ts: parseIdString.
\*
\* A string is a sequence of characters. A JavaScript value that may be
\* undefined is a set of at most one element: {} is undefined, {v} is v.
\* ---------------------------------------------------------------------------

TheOnly(value) == CHOOSE v \in value : TRUE

FeatureDomain ==
  [Cycling |-> <<"c", "y", "c", "l", "i", "n", "g">>,
   Transit |-> <<"t", "r", "a", "n", "s", "i", "t">>]

FeatureType ==
  [Way     |-> <<"w", "a", "y">>,
   Parking |-> <<"p", "a", "r", "k", "i", "n", "g">>,
   Route   |-> <<"r", "o", "u", "t", "e">>,
   Station |-> <<"s", "t", "a", "t", "i", "o", "n">>,
   Bike    |-> <<"b", "i", "k", "e">>]

FeatureSource ==
  [Osm  |-> <<"o", "s", "m">>,
   Gtfs |-> <<"g", "t", "f", "s">>,
   Gbfs |-> <<"g", "b", "f", "s">>]

OsmFeatureNamespace ==
  [Node     |-> <<"n", "o", "d", "e">>,
   Way      |-> <<"w", "a", "y">>,
   Relation |-> <<"r", "e", "l", "a", "t", "i", "o", "n">>]

Digits == {"0", "1", "2", "3", "4", "5", "6", "7", "8", "9"}

\* /\d+$/: a digit string at the end is enough
EndsWithDigits(string) == Len(string) > 0 /\ string[Len(string)] \in Digits

\* z.string().regex(/^\d+$/)
AllDigits(string) ==
  Len(string) > 0 /\ \A i \in 1..Len(string) : string[i] \in Digits

\* z.literal(v), z.union of literals: the values allowed
ZLiteral(values) == [anyString |-> FALSE, literals |-> values, default |-> {}]

\* z.string()
ZString == [anyString |-> TRUE, literals |-> {}, default |-> {}]

\* schema.default(value)
ZDefault(schema, value) == [schema EXCEPT !.default = {value}]

\* Every object schema of the file has identifier: z.string().regex(/^\d+$/).
CyclingWayId ==
  [domain    |-> FeatureDomain.Cycling,
   type      |-> FeatureType.Way,
   source    |-> ZDefault(ZLiteral({FeatureSource.Osm}), FeatureSource.Osm),
   namespace |-> ZDefault(ZLiteral({OsmFeatureNamespace.Way}),
                          OsmFeatureNamespace.Way)]

BicycleParkingId ==
  [domain    |-> FeatureDomain.Cycling,
   type      |-> FeatureType.Parking,
   source    |-> ZDefault(ZLiteral({FeatureSource.Osm}), FeatureSource.Osm),
   namespace |-> ZLiteral({OsmFeatureNamespace.Node, OsmFeatureNamespace.Way})]

CyclingRouteId ==
  [domain    |-> FeatureDomain.Cycling,
   type      |-> FeatureType.Route,
   source    |-> ZDefault(ZLiteral({FeatureSource.Osm}), FeatureSource.Osm),
   namespace |-> ZDefault(ZLiteral({OsmFeatureNamespace.Relation}),
                          OsmFeatureNamespace.Relation)]

TransitRouteId ==
  [domain    |-> FeatureDomain.Transit,
   type      |-> FeatureType.Route,
   source    |-> ZDefault(ZLiteral({FeatureSource.Gtfs}), FeatureSource.Gtfs),
   namespace |-> ZString]

TransitStationId ==
  [domain    |-> FeatureDomain.Transit,
   type      |-> FeatureType.Station,
   source    |-> ZDefault(ZLiteral({FeatureSource.Gtfs}), FeatureSource.Gtfs),
   namespace |-> ZString]

\* the discriminated unions, flattened: an option per domain and type
FeatureId ==
  {CyclingWayId, CyclingRouteId, BicycleParkingId, TransitRouteId,
   TransitStationId}

\* what a call did: returned a value, or threw an error of some name
Returned(value) == [threw |-> "", returned |-> {value}]

Threw(name) == [threw |-> name, returned |-> {}]

\* A field that takes no account of the schema's default.
ParseFieldWithoutDefault(schema, value) ==
  IF value # {} /\ (schema.anyString \/ value \subseteq schema.literals)
  THEN value
  ELSE {}

\* One field against its schema: the value to use, {} when it is invalid.
ParseField(schema, value) ==
  LET given == IF value = {} THEN schema.default ELSE value
  IN  IF given # {} /\ (schema.anyString \/ given \subseteq schema.literals)
      THEN given
      ELSE {}

\* An identifier checked with a regular expression that has lost its ^.
ParseObjectUnanchored(schema, data) ==
  LET source    == ParseField(schema.source, data.source)
      namespace == ParseField(schema.namespace, data.namespace)
  IN  IF source = {} \/ namespace = {} \/ ~EndsWithDigits(data.identifier)
      THEN Threw("ZodError")
      ELSE Returned([domain     |-> schema.domain,
                     type       |-> schema.type,
                     source     |-> TheOnly(source),
                     namespace  |-> TheOnly(namespace),
                     identifier |-> data.identifier])

ParseObject(schema, data) ==
  LET source    == ParseField(schema.source, data.source)
      namespace == ParseField(schema.namespace, data.namespace)
  IN  IF source = {} \/ namespace = {} \/ ~AllDigits(data.identifier)
      THEN Threw("ZodError")
      ELSE Returned([domain     |-> schema.domain,
                     type       |-> schema.type,
                     source     |-> TheOnly(source),
                     namespace  |-> TheOnly(namespace),
                     identifier |-> data.identifier])

\* FeatureId.parse(data)
FeatureIdParse(data) ==
  LET options == {o \in FeatureId :
                    o.domain = data.domain /\ {o.type} = data.type}
  IN  IF options = {}
      THEN Threw("ZodError")
      ELSE ParseObject(TheOnly(options), data)

\* string.split(separator), for a separator of one character
RECURSIVE SplitFrom(_, _, _, _)
SplitFrom(string, separator, i, current) ==
  IF i > Len(string) THEN <<current>>
  ELSE IF string[i] = separator
       THEN <<current>> \o SplitFrom(string, separator, i + 1, <<>>)
       ELSE SplitFrom(string, separator, i + 1, Append(current, string[i]))

Split(string, separator) == SplitFrom(string, separator, 1, <<>>)

\* array.join(separator)
RECURSIVE Join(_, _)
Join(parts, separator) ==
  IF parts = <<>> THEN <<>>
  ELSE IF Len(parts) = 1 THEN parts[1]
  ELSE parts[1] \o <<separator>> \o Join(Tail(parts), separator)

\* destructuring: the i-th element, undefined past the end ...
ElementAt(array, i) == IF i <= Len(array) THEN {array[i]} ELSE {}

\* ... and the rest after the first n
RestAfter(array, n) == SubSeq(array, n + 1, Len(array))

ParseIdString(str) ==
  LET bySlash == Split(str, "/")
      domain  == bySlash[1]
      type    == ElementAt(bySlash, 2)
      sourceNamespaceIdentifier == ElementAt(bySlash, 3)
      rest    == RestAfter(bySlash, 3)
  IN  IF rest # <<>> THEN Threw("Error")
      ELSE IF sourceNamespaceIdentifier = {} THEN Threw("TypeError")
      ELSE
        LET byColon == Split(TheOnly(sourceNamespaceIdentifier), ":")
            first   == byColon[1]
            second  == ElementAt(byColon, 2)
            idParts == RestAfter(byColon, 2)
            snid    ==
              IF Len(idParts) > 0
              THEN [source     |-> {first},
                    namespace  |-> second,
                    identifier |-> Join(idParts, ":")]
              ELSE IF second # {}
              THEN [source     |-> {},
                    namespace  |-> {first},
                    identifier |-> TheOnly(second)]
              ELSE [source     |-> {},
                    namespace  |-> {},
                    identifier |-> first]
        IN  FeatureIdParse([domain     |-> domain,
                            type       |-> type,
                            source     |-> snid.source,
                            namespace  |-> snid.namespace,
                            identifier |-> snid.identifier])

\* ---- the id strings parseIdString is called with ----

MaxIdParts == 4

\* the pieces an id is written with, between the ":"
IdTexts ==
  {FeatureSource.Osm, OsmFeatureNamespace.Way, OsmFeatureNamespace.Node,
   <<"f", "o", "o">>, <<"4", "2">>, <<"4", "x">>, <<>>}

\* domain/type: three that exist and one that does not
IdPrefixes ==
  {<<FeatureDomain.Cycling, FeatureType.Way>>,
   <<FeatureDomain.Cycling, FeatureType.Parking>>,
   <<FeatureDomain.Transit, FeatureType.Route>>,
   <<FeatureDomain.Cycling, FeatureType.Station>>}

IdRests ==
  {Join(parts, ":") : parts \in UNION {[1..n -> IdTexts] : n \in 1..MaxIdParts}}

IdString(prefix, rest) == Join(<<prefix[1], prefix[2], rest>>, "/")

FeatureIdStrings ==
     {Join(prefix, "/") : prefix \in IdPrefixes}
  \cup {IdString(prefix, rest) : prefix \in IdPrefixes, rest \in IdRests}
  \cup {IdString(prefix, Join(<<a, b>>, "/")) :
          prefix \in IdPrefixes, a \in IdTexts, b \in IdTexts}

IdInit ==
  /\ idStr \in FeatureIdStrings
  /\ parsed = {}
  /\ NoMerge /\ NoMap /\ NoTags

ParseCall ==
  /\ parsed = {}
  /\ parsed' = {ParseIdString(idStr)}
  /\ UNCHANGED <<idStr, buffer, mergeVars, clipVars, sortVars, hoverVars, tagVars>>

IdNext == ParseCall

SpecId == IdInit /\ [][IdNext]_vars

\* ---- parseIdString: abbreviated forms (C21) and rejections (C22) ----

CyclingWay == <<FeatureDomain.Cycling, FeatureType.Way>>

CyclingParking == <<FeatureDomain.Cycling, FeatureType.Parking>>

\* source:namespace:identifier, written out
Qualified(source, namespace, identifier) ==
  Join(<<source, namespace, identifier>>, ":")

FullyQualified(prefix, source, namespace, identifier) ==
  [domain     |-> prefix[1],
   type       |-> prefix[2],
   source     |-> source,
   namespace  |-> namespace,
   identifier |-> identifier]

\* C21: parseIdString accepts every abbreviated form of a valid feature id
\* and returns the same fully-qualified object as for the long form: for
\* cycling/way, "N", "way:N" and "osm:way:N" all parse to {domain: cycling,
\* type: way, source: osm, namespace: way, identifier: N}; for
\* cycling/parking, "ns:N" and "osm:ns:N" with ns node or way parse to the
\* same object, with source osm and the namespace ns.
C21_AbbreviatedFormsParseAlike ==
  \A p \in parsed : \A n \in {t \in IdTexts : AllDigits(t)} :
    /\ idStr \in {IdString(CyclingWay, n),
                  IdString(CyclingWay, Join(<<OsmFeatureNamespace.Way, n>>, ":")),
                  IdString(CyclingWay, Qualified(FeatureSource.Osm,
                                                 OsmFeatureNamespace.Way, n))}
         => p = Returned(FullyQualified(CyclingWay, FeatureSource.Osm,
                                        OsmFeatureNamespace.Way, n))
    /\ \A ns \in {OsmFeatureNamespace.Node, OsmFeatureNamespace.Way} :
         idStr \in {IdString(CyclingParking, Join(<<ns, n>>, ":")),
                    IdString(CyclingParking,
                             Qualified(FeatureSource.Osm, ns, n))}
           => p = Returned(FullyQualified(CyclingParking, FeatureSource.Osm,
                                          ns, n))

\* "cycling/way/42" has been parsed, to the object of "cycling/way/osm:way:42"
C21_Witness ==
  /\ idStr = IdString(CyclingWay, <<"4", "2">>)
  /\ parsed = {ParseIdString(IdString(CyclingWay,
                 Qualified(FeatureSource.Osm, OsmFeatureNamespace.Way,
                           <<"4", "2">>)))}
  /\ \A p \in parsed : p.threw = "" /\ p.returned # {}

\* The id string as the format reads it: domain/type/source:namespace:identifier,
\* where the source may be left out, and the namespace with it. The last
\* three are read from all that is written after "domain/type/".
Written(str) ==
  LET bySlash == Split(str, "/")
      byColon == Split(Join(RestAfter(bySlash, 2), "/"), ":")
  IN  [domain     |-> bySlash[1],
       type       |-> ElementAt(bySlash, 2),
       given      |-> Len(bySlash) > 2,
       slashes    |-> Len(bySlash) - 1,
       source     |-> IF Len(byColon) > 2 THEN {byColon[1]} ELSE {},
       namespace  |-> IF Len(byColon) > 2 THEN {byColon[2]}
                      ELSE IF Len(byColon) = 2 THEN {byColon[1]} ELSE {},
       identifier |-> IF Len(byColon) > 2 THEN Join(RestAfter(byColon, 2), ":")
                      ELSE byColon[Len(byColon)]]

\* the schema of the id string's domain and type, if they are known
SchemaOf(written) ==
  {o \in FeatureId : o.domain = written.domain /\ {o.type} = written.type}

\* the id string is one the claim says is rejected
Rejectable(str) ==
  LET written == Written(str)
  IN  /\ written.given
      /\ \E o \in SchemaOf(written) :
           \/ ~AllDigits(written.identifier)
           \/ /\ written.namespace # {}
              /\ ~o.namespace.anyString
              /\ ~(written.namespace \subseteq o.namespace.literals)
           \/ /\ written.source # {}
              /\ ~(written.source \subseteq o.source.literals)
           \/ /\ o = BicycleParkingId
              /\ written.namespace = {}

\* C22, as claimed: parseIdString rejects with a ZodError every id string of
\* a known domain/type whose identifier is not all digits, whose namespace is
\* not one allowed for that type, or whose source is not the one allowed for
\* that type; and a cycling/parking id without a namespace.
C22_RejectedWithZodError ==
  \A p \in parsed : Rejectable(idStr) => p.threw = "ZodError"

\* C22, amended: ... every such id string with no "/" after the one that
\* follows the type ... (with a further "/" the error is a plain Error).
C22_RejectedWithZodErrorUnlessSlash ==
  \A p \in parsed :
    (Rejectable(idStr) /\ Written(idStr).slashes = 2) => p.threw = "ZodError"

\* "cycling/parking/42", a bare number, has been rejected with a ZodError
C22_Witness ==
  /\ idStr = IdString(CyclingParking, <<"4", "2">>)
  /\ Rejectable(idStr)
  /\ parsed = {Threw("ZodError")}

\* ---------------------------------------------------------------------------
\* MapData.ts: the CyclingMap component, its hover and selection handlers.
\*
\* map is TRUE while the component is mounted and useMap() gives it a map.
\* The feature state lives in the map's source and outlasts the component.
\* ---------------------------------------------------------------------------

MaxFeatureId == 2

\* the ids of the features under the pointer: a vector tile id is an
\* unsigned integer
FeatureIds == 0..MaxFeatureId

Zooms == {12, 13, 14}

\* map.getZoom() < 13
MinHoverZoom == 13

\* if (value): undefined and 0 are falsy
Truthy(value) == value # {} /\ value # {0}

\* map.setFeatureState({..., id}, {key: true})
SetFeatureState(state, id, key) == [state EXCEPT ![id] = @ \cup {key}]

\* map.removeFeatureState({..., id}, key)
RemoveFeatureState(state, id, key) == [state EXCEPT ![id] = @ \ {key}]

\* The cleanup of the hover effect: hover is taken off the feature of the ref.
HoverCleanup(state) ==
  IF Truthy(hoveredFeatureIdRef)
  THEN RemoveFeatureState(state, TheOnly(hoveredFeatureIdRef), "hover")
  ELSE state

\* The cleanup of the selection effect, which runs before the effect runs
\* again and when the component unmounts.
SelectedCleanup(state) ==
  IF selectedFeature # {}
  THEN RemoveFeatureState(state, TheOnly(selectedFeature).id, "selected")
  ELSE state

HoverInit ==
  /\ map = FALSE
  /\ zoom \in Zooms
  /\ hoveredFeatureIdRef = {}
  /\ selectedFeature = {}
  /\ featureState = [id \in FeatureIds |-> {}]
  /\ cursor = ""
  /\ NoMerge /\ NoParse /\ NoTags

\* The component is rendered and the map is there.
Mount ==
  /\ ~map
  /\ map' = TRUE
  /\ UNCHANGED <<zoom, hoveredFeatureIdRef, selectedFeature, featureState,
                 cursor, buffer, mergeVars, clipVars, sortVars, idVars, tagVars>>

\* The user zooms the map.
ZoomTo(level) ==
  /\ map
  /\ zoom # level
  /\ zoom' = level
  /\ UNCHANGED <<map, hoveredFeatureIdRef, selectedFeature, featureState,
                 cursor, buffer, mergeVars, clipVars, sortVars, idVars, tagVars>>

\* mousemove on a cycling layer, over the feature id
HandleMouseOver(id) ==
  /\ map
  /\ IF zoom < MinHoverZoom \/ {id} = hoveredFeatureIdRef
     THEN UNCHANGED <<hoveredFeatureIdRef, featureState, cursor>>
     ELSE /\ featureState' =
               SetFeatureState(HoverCleanup(featureState), id, "hover")
          /\ hoveredFeatureIdRef' = {id}
          /\ cursor' = "pointer"
  /\ UNCHANGED <<map, zoom, selectedFeature, buffer, mergeVars, clipVars,
                 sortVars, idVars, tagVars>>

\* mouseleave on a cycling layer
HandleMouseOut ==
  /\ map
  /\ featureState' = HoverCleanup(featureState)
  /\ hoveredFeatureIdRef' =
       IF Truthy(hoveredFeatureIdRef) THEN {} ELSE hoveredFeatureIdRef
  /\ cursor' = "default"
  /\ UNCHANGED <<map, zoom, selectedFeature, buffer, mergeVars, clipVars,
                 sortVars, idVars, tagVars>>

\* setSelectedFeature(feature) and the selection effect that follows it
Select(feature) ==
  /\ selectedFeature' = {feature}
  /\ featureState' =
       SetFeatureState(SelectedCleanup(featureState), feature.id, "selected")
  /\ UNCHANGED <<map, zoom, hoveredFeatureIdRef, cursor, buffer, mergeVars,
                 clipVars, sortVars, idVars, tagVars>>

\* click on a path layer
HandleClick(id) ==
  /\ map
  /\ zoom >= MinHoverZoom
  /\ Select([id |-> id, type |-> "cycling_way"])

\* click on one of the other layers
HandlePointClick(id) ==
  /\ map
  /\ zoom >= MinHoverZoom
  /\ Select([id |-> id, type |-> "bicycle_parking"])

CloseInfobox ==
  /\ map
  /\ selectedFeature # {}
  /\ selectedFeature' = {}
  /\ featureState' = SelectedCleanup(featureState)
  /\ UNCHANGED <<map, zoom, hoveredFeatureIdRef, cursor, buffer, mergeVars,
                 clipVars, sortVars, idVars, tagVars>>

\* Leaving the cycling map: the cleanups run and the component, with its
\* ref and its state, is gone.
Unmount ==
  /\ map
  /\ map' = FALSE
  /\ featureState' = SelectedCleanup(HoverCleanup(featureState))
  /\ hoveredFeatureIdRef' = {}
  /\ selectedFeature' = {}
  /\ UNCHANGED <<zoom, cursor, buffer, mergeVars, clipVars, sortVars, idVars,
                 tagVars>>

HoverNext ==
  \/ Mount
  \/ \E level \in Zooms : ZoomTo(level)
  \/ \E id \in FeatureIds : HandleMouseOver(id)
  \/ HandleMouseOut
  \/ \E id \in FeatureIds : HandleClick(id)
  \/ \E id \in FeatureIds : HandlePointClick(id)
  \/ CloseInfobox
  \/ Unmount

SpecHover == HoverInit /\ [][HoverNext]_vars

\* ---- the hover state (C29) ----

\* the features that carry the hover feature-state
Hovered == {id \in FeatureIds : "hover" \in featureState[id]}

\* C29: in CyclingMap, after any sequence of mousemove and mouseleave events
\* on the cycling layers, at any zoom level and over any feature ids, the
\* set of features that carry the hover feature-state is empty when
\* hoveredFeatureIdRef is unset and is exactly the one feature whose id it
\* holds otherwise; two features never carry the hover state at once.
C29_HoverIsOnTheRefOnly ==
  map => /\ Hovered = hoveredFeatureIdRef
         /\ Cardinality(Hovered) <= 1

\* ---------------------------------------------------------------------------
\* OsmProcessor.ts: deriveCyclingTags.
\*
\* A tag record is a function from the keys it has to their values, and
\* tags.key is a set of at most one value, as every value that may be
\* undefined is. An object is a record; {...a, ...b} is b @@ a.
\* ---------------------------------------------------------------------------

CyclingComfort == [MOST |-> 4, HIGH |-> 3, LOW |-> 2, LEAST |-> 1]

\* tags.key, tags["key"]
Tag(tags, key) == IF key \in DOMAIN tags THEN {tags[key]} ELSE {}

\* if (tags.key): undefined and "" are falsy
NonEmpty(tag) == tag # {} /\ tag # {""}

\* tag === value
Is(tag, value) == tag = {value}

\* values.includes(tag), for values that are all strings
TagIsOneOf(tag, values) == tag # {} /\ tag \subseteq values

DigitValue ==
  [c \in Digits |->
     CASE c = "0" -> 0 [] c = "1" -> 1 [] c = "2" -> 2 [] c = "3" -> 3
       [] c = "4" -> 4 [] c = "5" -> 5 [] c = "6" -> 6 [] c = "7" -> 7
       [] c = "8" -> 8 [] c = "9" -> 9]

CharAt(string, i) == SubSeq(string, i, i)

\* the digits from position i on, as far as they go
RECURSIVE ParseDigits(_, _, _)
ParseDigits(string, i, value) ==
  IF i > Len(string) \/ CharAt(string, i) \notin Digits THEN value
  ELSE ParseDigits(string, i + 1, value * 10 + DigitValue[CharAt(string, i)])

\* where the leading white space ends
RECURSIVE SkipSpaces(_, _)
SkipSpaces(string, i) ==
  IF i <= Len(string) /\ CharAt(string, i) = " "
  THEN SkipSpaces(string, i + 1)
  ELSE i

\* parseInt(string, 10) when the result is finite, {} when it is NaN
ParseInt(string) ==
  LET start  == SkipSpaces(string, 1)
      signed == start <= Len(string) /\ CharAt(string, start) \in {"+", "-"}
      first  == IF signed THEN start + 1 ELSE start
  IN  IF first > Len(string) \/ CharAt(string, first) \notin Digits THEN {}
      ELSE IF signed /\ CharAt(string, start) = "-"
           THEN {0 - ParseDigits(string, first, 0)}
           ELSE {ParseDigits(string, first, 0)}

SafeParseInt(value) ==
  IF ~NonEmpty(value) THEN {} ELSE ParseInt(TheOnly(value))

\* ...(condition ? {key: value} : undefined)
SpreadIf(condition, object) == IF condition THEN object ELSE <<>>

Common(osmWayId, tags) ==
  SpreadIf(NonEmpty(Tag(tags, "surface")),
           [surface |-> TheOnly(Tag(tags, "surface"))])
  @@ SpreadIf(NonEmpty(Tag(tags, "name")), [name |-> TheOnly(Tag(tags, "name"))])
  @@ [type |-> "cycling/way", osm_way_id |-> osmWayId]

\* tags.oneway === "yes" ? 1 : tags.oneway === "-1" ? -1 : 0
TrackOneway(tags) ==
  IF Is(Tag(tags, "oneway"), "yes") THEN 1
  ELSE IF Is(Tag(tags, "oneway"), "-1") THEN -1
  ELSE 0

\* tags["oneway:bicycle"] === "no" ? 0 : tags.oneway === "yes" ? 1 : 0
SharedOneway(tags) ==
  IF Is(Tag(tags, "oneway:bicycle"), "no") THEN 0
  ELSE IF Is(Tag(tags, "oneway"), "yes") THEN 1
  ELSE 0

\* A track as comfortable as can be, whoever shares it.
TrackComfortAlwaysMost(shared_with_pedestrians) == CyclingComfort.MOST

\* shared_with_pedestrians ? CyclingComfort.HIGH : CyclingComfort.MOST
TrackComfort(shared_with_pedestrians) ==
  IF shared_with_pedestrians THEN CyclingComfort.HIGH ELSE CyclingComfort.MOST

\* A lane whose comfort takes no account of the dooring risk.
LaneComfortAlwaysLow(dooringRisk) == CyclingComfort.LOW

\* dooringRisk ? CyclingComfort.LEAST : CyclingComfort.LOW
LaneComfort(dooringRisk) ==
  IF dooringRisk THEN CyclingComfort.LEAST ELSE CyclingComfort.LOW

Parked == {"separate", "lane", "street_side"}

\* highway === "cycleway"
Cycleway(common, tags) ==
  LET shared_with_pedestrians ==
        Is(Tag(tags, "foot"), "designated") /\ Is(Tag(tags, "segregated"), "no")
  IN  [class                   |-> "track",
       shared_with_pedestrians |-> shared_with_pedestrians,
       shared_with_vehicles    |-> FALSE,
       comfort                 |-> TrackComfort(shared_with_pedestrians),
       oneway                  |-> TrackOneway(tags)] @@ common

\* highway path or pedestrian, bicycle designated
SharedPath(common, tags) ==
  LET shared_with_pedestrians ==
        /\ \/ Is(Tag(tags, "foot"), "designated")
           \/ Is(Tag(tags, "highway"), "pedestrian")
        /\ ~Is(Tag(tags, "segregated"), "yes")
  IN  [class                   |-> "track",
       shared_with_pedestrians |-> shared_with_pedestrians,
       shared_with_vehicles    |-> FALSE,
       comfort                 |-> TrackComfort(shared_with_pedestrians),
       oneway                  |-> TrackOneway(tags)] @@ common

\* a highway with cycleway === "track"
RoadsideTrack(common, tags) ==
  LET shared_with_pedestrians ==
        /\ Is(Tag(tags, "foot"), "designated")
        /\ ~Is(Tag(tags, "segregated"), "yes")
  IN  [class                   |-> "track",
       shared_with_pedestrians |-> shared_with_pedestrians,
       shared_with_vehicles    |-> FALSE,
       comfort                 |-> TrackComfort(shared_with_pedestrians),
       oneway                  |-> TrackOneway(tags)] @@ common

\* highway === "construction", construction === "cycleway"
TrackUnderConstruction(common, tags) ==
  LET shared_with_pedestrians ==
        /\ Is(Tag(tags, "foot"), "designated")
        /\ ~Is(Tag(tags, "segregated"), "yes")
  IN  SpreadIf(NonEmpty(Tag(tags, "opening_date")),
               [opening_date |-> TheOnly(Tag(tags, "opening_date"))])
      @@ SpreadIf(NonEmpty(Tag(tags, "website")),
                  [website |-> TheOnly(Tag(tags, "website"))])
      @@ [class                   |-> "track",
          construction            |-> TRUE,
          shared_with_pedestrians |-> shared_with_pedestrians,
          shared_with_vehicles    |-> FALSE,
          comfort                 |-> TrackComfort(shared_with_pedestrians),
          oneway                  |-> TrackOneway(tags)] @@ common

\* a road, not one-way, with a lane on each side
LanesBothSides(common, tags) ==
  LET dooringRisk ==
        \/ TagIsOneOf(Tag(tags, "parking"), {"lane", "street_side"})
        \/ TagIsOneOf(Tag(tags, "parking:both"), {"lane", "street_side"})
        \/ Is(Tag(tags, "parking:both"), "separate")
        \/ TagIsOneOf(Tag(tags, "parking:right"), Parked)
        \/ TagIsOneOf(Tag(tags, "parking:right"), Parked)
  IN  SpreadIf(dooringRisk, [dooring_risk |-> TRUE])
      @@ [class                   |-> "lane",
          shared_with_pedestrians |-> FALSE,
          shared_with_vehicles    |-> FALSE,
          comfort                 |-> LaneComfort(dooringRisk),
          oneway                  |-> 0] @@ common

\* a two-way lane on one side of a road that is not one-way
TwoWayLaneOneSide(common, tags) ==
  [class                   |-> "lane",
   shared_with_pedestrians |-> FALSE,
   shared_with_vehicles    |-> FALSE,
   comfort                 |-> CyclingComfort.LOW,
   oneway                  |-> 0,
   side                    |-> IF Is(Tag(tags, "cycleway:right"), "lane")
                               THEN "right" ELSE "left"] @@ common

\* a one-way lane on a one-way road
OneWayLane(common, tags) ==
  LET side == IF Is(Tag(tags, "cycleway:left"), "lane") THEN "left" ELSE "right"
      dooringRisk == TagIsOneOf(Tag(tags, "parking:" \o side), Parked)
  IN  SpreadIf(dooringRisk, [dooring_risk |-> TRUE])
      @@ [class                   |-> "lane",
          shared_with_pedestrians |-> FALSE,
          shared_with_vehicles    |-> FALSE,
          comfort                 |-> LaneComfort(dooringRisk),
          oneway                  |->
            IF /\ Is(Tag(tags, "cycleway:right"), "lane")
               /\ Is(Tag(tags, "cycleway:left"), "lane")
            THEN 0
            ELSE IF /\ Is(Tag(tags, "cycleway:left"), "lane")
                    /\ Is(Tag(tags, "cycleway:right"), "lane")
            THEN 0
            ELSE 1,
          side                    |-> side] @@ common

\* a lane shared with motor vehicles
SharedLane(common, tags) ==
  LET maxSpeed == SafeParseInt(Tag(tags, "maxspeed"))
  IN  [class                   |-> "lane",
       shared_with_pedestrians |-> FALSE,
       shared_with_vehicles    |-> TRUE,
       comfort                 |->
         IF Is(Tag(tags, "motor_vehicle"), "private") THEN CyclingComfort.HIGH
         ELSE IF maxSpeed # {} /\ maxSpeed # {0} /\ TheOnly(maxSpeed) <= 30
         THEN CyclingComfort.HIGH
         ELSE CyclingComfort.LEAST,
       oneway                  |-> SharedOneway(tags)] @@ common

\* a slow residential street that bicycles can use
SlowStreet(common, tags) ==
  [class                   |-> "lane",
   shared_with_pedestrians |-> Is(Tag(tags, "foot"), "yes"),
   shared_with_vehicles    |-> TRUE,
   comfort                 |-> CyclingComfort.HIGH,
   oneway                  |-> SharedOneway(tags)] @@ common

\* a two-way road with a one-way lane on one side only
OneWayLaneOneSide(common, tags) ==
  LET side == IF Is(Tag(tags, "cycleway:left"), "lane") THEN "left" ELSE "right"
      dooringRisk ==
        \/ TagIsOneOf(Tag(tags, "parking:both"), Parked)
        \/ TagIsOneOf(Tag(tags, "parking:" \o side), Parked)
  IN  SpreadIf(dooringRisk, [dooring_risk |-> TRUE])
      @@ [class                   |-> "lane",
          shared_with_pedestrians |-> FALSE,
          shared_with_vehicles    |-> FALSE,
          comfort                 |-> LaneComfort(dooringRisk),
          oneway                  |->
            IF Is(Tag(tags, "cycleway:left"), "lane") THEN -1 ELSE 1,
          side                    |-> side] @@ common

\* The way derived from the tags: {} when the function returns undefined.
DeriveCyclingTags(osmWayId, rawTags) ==
  LET tags     == rawTags
      common   == Common(osmWayId, tags)
      highway  == Tag(tags, "highway")
      oneway   == Tag(tags, "oneway")
      cycleway == Tag(tags, "cycleway")
      both     == Tag(tags, "cycleway:both")
      left     == Tag(tags, "cycleway:left")
      right    == Tag(tags, "cycleway:right")
      maxSpeed == SafeParseInt(Tag(tags, "maxspeed"))
  IN  IF Is(highway, "cycleway")
        THEN {Cycleway(common, tags)}
      ELSE IF /\ TagIsOneOf(highway, {"path", "pedestrian"})
              /\ Is(Tag(tags, "bicycle"), "designated")
        THEN {SharedPath(common, tags)}
      ELSE IF "highway" \in DOMAIN tags /\ Is(cycleway, "track")
        THEN {RoadsideTrack(common, tags)}
      ELSE IF /\ Is(highway, "construction")
              /\ Is(Tag(tags, "construction"), "cycleway")
        THEN {TrackUnderConstruction(common, tags)}
      ELSE IF /\ NonEmpty(highway)
              /\ ~Is(oneway, "yes")
              /\ \/ Is(cycleway, "lane")
                 \/ Is(both, "lane")
                 \/ Is(left, "lane") /\ Is(right, "lane")
        THEN {LanesBothSides(common, tags)}
      ELSE IF /\ NonEmpty(highway)
              /\ ~Is(oneway, "yes")
              /\ \/ /\ Is(right, "lane")
                    /\ Is(Tag(tags, "cycleway:right:oneway"), "no")
                 \/ /\ Is(left, "lane")
                    /\ Is(Tag(tags, "cycleway:left:oneway"), "no")
        THEN {TwoWayLaneOneSide(common, tags)}
      ELSE IF /\ NonEmpty(highway)
              /\ Is(oneway, "yes")
              /\ \/ Is(cycleway, "lane")
                 \/ Is(right, "lane")
                 \/ Is(left, "lane")
        THEN {OneWayLane(common, tags)}
      ELSE IF \/ /\ NonEmpty(highway)
                 /\ TagIsOneOf(cycleway, {"shared_lane", "shared"})
              \/ TagIsOneOf(both, {"shared_lane", "shared"})
        THEN {SharedLane(common, tags)}
      ELSE IF /\ Is(highway, "residential")
              /\ TagIsOneOf(Tag(tags, "bicycle"), {"yes", "designated"})
              /\ maxSpeed # {}
              /\ TheOnly(maxSpeed) <= 30
        THEN {SlowStreet(common, tags)}
      ELSE IF /\ NonEmpty(highway)
              /\ \/ Is(right, "lane") /\ Is(left, "no")
                 \/ Is(left, "lane") /\ Is(right, "no")
        THEN {OneWayLaneOneSide(common, tags)}
      ELSE {}

\* ---- the tag records deriveCyclingTags is called with ----

MaxTags == 4

\* the values a key is drawn with
TagValues ==
  [highway    |-> {"cycleway", "path", "pedestrian", "construction",
                   "residential", ""},
   foot       |-> {"designated"},
   segregated |-> {"yes", "no"},
   bicycle    |-> {"designated"},
   cycleway   |-> {"track", "lane", "shared_lane"},
   construction |-> {"cycleway"},
   oneway     |-> {"yes"},
   maxspeed   |-> {"30", "50", "20 mph"},
   name       |-> {"Main Street"}]
  @@ ("cycleway:both"         :> {"lane"}
   @@ "cycleway:left"         :> {"lane", "no"}
   @@ "cycleway:right"        :> {"lane", "no"}
   @@ "cycleway:right:oneway" :> {"no"}
   @@ "parking"               :> {"lane"}
   @@ "parking:both"          :> {"separate"}
   @@ "parking:left"          :> {"street_side"}
   @@ "parking:right"         :> {"lane"})

RECURSIVE RecordsOver(_)
RecordsOver(keys) ==
  IF keys = {} THEN {<<>>}
  ELSE LET key == CHOOSE c \in keys : TRUE
       IN  {(key :> v) @@ r : v \in TagValues[key], r \in RecordsOver(keys \ {key})}

TagKeySets == {c \in SUBSET DOMAIN TagValues : Cardinality(c) <= MaxTags}

TagInit ==
  /\ \E keys \in TagKeySets : rawOsmTags \in RecordsOver(keys)
  /\ derived = {}
  /\ NoMerge /\ NoParse /\ NoMap

DeriveCall ==
  /\ derived = {}
  /\ \E osmWayId \in {74096518} :
       derived' = {DeriveCyclingTags(osmWayId, rawOsmTags)}
  /\ UNCHANGED <<rawOsmTags, buffer, mergeVars, clipVars, sortVars, idVars,
                 hoverVars>>

TagNext == DeriveCall

SpecTags == TagInit /\ [][TagNext]_vars

\* ---- tracks and dooring risk (C30) ----

\* the ways deriveCyclingTags has returned
Ways == UNION derived

\* C30: for every OSM tag record for which deriveCyclingTags returns a
\* result with class "track", the result has shared_with_vehicles = false
\* and its comfort is HIGH (3) when shared_with_pedestrians is true and
\* MOST (4) when it is false; and for every result that carries
\* dooring_risk, class is "lane" and comfort is LEAST (1).
C30_TrackAndDooringRiskComfort ==
  \A way \in Ways :
    /\ way.class = "track" =>
         /\ way.shared_with_vehicles = FALSE
         /\ way.shared_with_pedestrians => way.comfort = 3
         /\ ~way.shared_with_pedestrians => way.comfort = 4
    /\ "dooring_risk" \in DOMAIN way =>
         /\ way.class = "lane"
         /\ way.comfort = 1

\* a track shared with pedestrians has been derived, of comfort HIGH ...
C30_Witness ==
  \E way \in Ways :
    way.class = "track" /\ way.shared_with_pedestrians /\ way.comfort = 3

\* ... and, from other tags, a lane with a dooring risk, of comfort LEAST
C30_WitnessDooringRisk ==
  /\ rawOsmTags = [highway |-> "residential", cycleway |-> "lane",
                   parking |-> "lane"]
  /\ \E way \in Ways :
       /\ "dooring_risk" \in DOMAIN way
       /\ way.class = "lane"
       /\ way.comfort = 1
       /\ way.osm_way_id = 74096518

====
